---- MODULE Spec2Model ----
(***************************************************************************)
(* Export/import of policies (PolicyOps.ts) and OAuth2 clients             *)
(* (OAuth2ClientOps.ts) with their prerequisites (resource types, policy   *)
(* sets) and dependencies (scripts).                                       *)
(*                                                                         *)
(* Every entry point is an asynchronous function: each await of a          *)
(* collaborator call is one step of the model.  The collaborators (the     *)
(* REST api modules, ScriptOps, PolicySetOps, ResourceTypeOps,             *)
(* OAuth2ProviderOps) are the remote store: a call either succeeds, and    *)
(* then reads or replaces one object, or fails.  Every collaborator call   *)
(* is appended to log with its outcome.                                    *)
(***************************************************************************)
EXTENDS Integers, Sequences, FiniteSets, TLC

(***************************************************************************)
(* Bounds of the model.                                                    *)
(***************************************************************************)
\* most entries in the primary collection of a bundle or in a listing
MaxItems == 2
\* most collaborator calls that fail during one call of an entry point
MaxFailures == 2

(***************************************************************************)
(* JavaScript values.                                                      *)
(***************************************************************************)
\* undefined, where a string is expected (a missing field, a deleted field)
NoValue == "undefined"
\* undefined or null, where an object is expected
NoObject == [type |-> "undefined"]

\* A JavaScript object used as a map: its entries in insertion order, which is
\* the order of Object.keys.
Keys(m) == [i \in 1..Len(m) |-> m[i].k]
KeySet(m) == {m[i].k : i \in 1..Len(m)}
Has(m, key) == \E i \in 1..Len(m) : m[i].k = key
Get(m, key) == IF Has(m, key) THEN m[CHOOSE i \in 1..Len(m) : m[i].k = key].v ELSE NoObject
\* mutant: a key is added even where the map has it
PutAppends(m, key, val) == Append(m, [k |-> key, v |-> val])
\* mutant: what the map held before is lost
PutAlone(m, key, val) == <<[k |-> key, v |-> val]>>
Put(m, key, val) ==
    IF Has(m, key)
    THEN [i \in 1..Len(m) |-> IF m[i].k = key THEN [k |-> key, v |-> val] ELSE m[i]]
    ELSE Append(m, [k |-> key, v |-> val])

\* a missing nested object: like {}, it has no keys to go through
NoMap == <<>>

\* [...new Set(a)]: the first occurrence of every element, in order
RECURSIVE Dedup(_)
\* mutant: nothing is de-duplicated
DedupNothing(a) == a
Dedup(a) ==
    IF a = <<>> THEN <<>>
    ELSE LET front == Dedup(SubSeq(a, 1, Len(a) - 1))
             last == a[Len(a)]
         IN IF \E i \in 1..Len(front) : front[i] = last THEN front ELSE Append(front, last)

Range(a) == {a[i] : i \in 1..Len(a)}

(***************************************************************************)
(* Errors.  new FrodoError(message, cause): the message names the          *)
(* operation and the object id; cause is the error, or the array of        *)
(* errors, it wraps.  A failed collaborator call is a leaf.  http is the   *)
(* status the error reports: "notAvailable" is the 403 "This operation is  *)
(* not available in PingOne Advanced Identity Cloud." response.            *)
(***************************************************************************)
ApiError(call, id, res) ==
    [api |-> TRUE, msg |-> call, id |-> id, http |-> res, causes |-> <<>>]
FrodoError(msg, id, causes) ==
    [api |-> FALSE, msg |-> msg, id |-> id,
     http |-> IF Len(causes) = 1 THEN causes[1].http ELSE "none",
     causes |-> causes]

\* the failed collaborator calls an error holds, in order
RECURSIVE Leaves(_)
RECURSIVE LeavesOfSeq(_)
Leaves(e) == IF e.api THEN <<[call |-> e.msg, id |-> e.id, res |-> e.http]>>
             ELSE LeavesOfSeq(e.causes)
LeavesOfSeq(es) == IF es = <<>> THEN <<>> ELSE Leaves(Head(es)) \o LeavesOfSeq(Tail(es))

(***************************************************************************)
(* Policy conditions.                                                      *)
(***************************************************************************)
ScriptIds == {"s1", "s2"}

ScriptCondition(s) == [type |-> "Script", scriptId |-> s, condition |-> NoObject, conditions |-> <<>>]
Combinator(t, c, cs) == [type |-> t, scriptId |-> NoValue, condition |-> c, conditions |-> cs]
\* a condition of another type; it may carry the same fields
OtherCondition(t, s, c, cs) == [type |-> t, scriptId |-> s, condition |-> c, conditions |-> cs]
\* {}
EmptyCondition == [type |-> NoValue, scriptId |-> NoValue, condition |-> NoObject, conditions |-> <<>>]

RECURSIVE findScriptUuids(_)
RECURSIVE findInConditions(_)
\* mutant: every condition that is no combinator is taken for a script condition
findScriptUuidsOfAnyLeaf(condition) ==
    IF condition = NoObject THEN <<>>
    ELSE Dedup(
        IF condition.type \in {"AND", "OR", "NOT"}
        THEN (IF condition.condition # NoObject
              THEN findScriptUuids(condition.condition) ELSE <<>>)
             \o findInConditions(condition.conditions)
        ELSE <<condition.scriptId>>)
\* mutant: the fields condition and conditions are walked whatever the type
findScriptUuidsThroughAnyType(condition) ==
    IF condition = NoObject THEN <<>>
    ELSE Dedup(
        (IF condition.type = "Script" THEN <<condition.scriptId>> ELSE <<>>)
        \o (IF condition.condition # NoObject
            THEN findScriptUuids(condition.condition) ELSE <<>>)
        \o findInConditions(condition.conditions))
findScriptUuids(condition) ==
    IF condition = NoObject THEN <<>>
    ELSE Dedup(
        IF condition.type \in {"AND", "OR", "NOT"}
        THEN (IF condition.condition # NoObject
              THEN findScriptUuids(condition.condition) ELSE <<>>)
             \o findInConditions(condition.conditions)
        ELSE IF condition.type = "Script" THEN <<condition.scriptId>>
        ELSE <<>>)
\* the loop over condition.conditions: what it pushes
findInConditions(conds) ==
    IF conds = <<>> THEN <<>>
    ELSE findScriptUuids(Head(conds)) \o findInConditions(Tail(conds))

(***************************************************************************)
(* Configuration objects.                                                  *)
(***************************************************************************)
PolicyIds == {"p1", "p2", "p3"}
PolicySetNames == {"ps1", "ps2"}
ResourceTypeUuids == {"rt1"}
ScriptOrder == <<"s1", "s2">>
PolicySetOrder == <<"ps1", "ps2">>
ResourceTypeOrder == <<"rt1">>

ScriptSkeleton(id) == [_id |-> id, script |-> [enc |-> "base64", text |-> id]]
ResourceTypeSkeleton(uuid) == [uuid |-> uuid]
PolicySetSkeleton(name) == [name |-> name]
PolicySkeleton(id, rev, app, rt, cond) ==
    [_id |-> id, _rev |-> rev, applicationName |-> app, resourceTypeUuid |-> rt,
     condition |-> cond]

\* The policies of the model: p1 references s1 and s2 three levels deep, p2
\* references s1 too, p3 has no condition, no resource type and no _rev.
PolicyPool ==
    [p1 |-> PolicySkeleton("p1", "1", "ps1", "rt1",
                Combinator("AND", NoObject,
                    <<ScriptCondition("s1"),
                      Combinator("OR", NoObject,
                          <<OtherCondition("Session", NoValue, NoObject, <<>>),
                            Combinator("NOT", ScriptCondition("s2"), <<>>)>>)>>)),
     p2 |-> PolicySkeleton("p2", "2", "ps2", "rt1",
                Combinator("NOT", ScriptCondition("s1"), <<>>)),
     p3 |-> PolicySkeleton("p3", NoValue, "ps1", NoValue, NoObject)]

\* Attribute names, as their characters: "aScript", "bScript", "Scripts",
\* "script", "_id", "scope", "nested".
aScript == <<"a", "S", "c", "r", "i", "p", "t">>
bScript == <<"b", "S", "c", "r", "i", "p", "t">>
Scripts == <<"S", "c", "r", "i", "p", "t", "s">>
script == <<"s", "c", "r", "i", "p", "t">>
underscoreId == <<"_", "i", "d">>
underscoreType == <<"_", "t", "y", "p", "e">>
scope == <<"s", "c", "o", "p", "e">>
nested == <<"n", "e", "s", "t", "e", "d">>
Script == <<"S", "c", "r", "i", "p", "t">>
Empty == "[Empty]"

\* mutant: key.includes(suffix)
includes(key, suffix) ==
    \E n \in 1..Len(key) :
        n + Len(suffix) - 1 <= Len(key) /\ SubSeq(key, n, n + Len(suffix) - 1) = suffix

\* key.endsWith(suffix)
endsWith(key, suffix) ==
    /\ Len(suffix) <= Len(key)
    /\ SubSeq(key, Len(key) - Len(suffix) + 1, Len(key)) = suffix

ClientIds == {"c1", "c2", "c3"}
OAuth2Provider == [_id |-> "provider", _type |-> "oauth-oidc"]
OAuth2ClientSkeleton(id, rev, provider, override, core) ==
    [_id |-> id, _rev |-> rev, _provider |-> provider,
     overrideOAuth2ClientConfig |-> override, coreOAuth2ClientConfig |-> core]

\* The clients of the model: c1 references s1, holds the sentinel and has s2
\* under a key that does not end in Script and under a key that ends in
\* Script of an object one level down; c2 references s1 and s2; c3 has no
\* overrideOAuth2ClientConfig.
ClientPool ==
    [c1 |-> OAuth2ClientSkeleton("c1", "1", OAuth2Provider,
                <<[k |-> aScript, v |-> "s1"], [k |-> bScript, v |-> Empty],
                  [k |-> Scripts, v |-> "s2"],
                  [k |-> nested, v |-> <<[k |-> aScript, v |-> "s2"]>>]>>,
                <<[k |-> underscoreId, v |-> "core"], [k |-> scope, v |-> "openid"]>>),
     c2 |-> OAuth2ClientSkeleton("c2", "2", OAuth2Provider,
                <<[k |-> aScript, v |-> "s1"], [k |-> bScript, v |-> "s2"],
                  [k |-> script, v |-> "s2"]>>,
                <<[k |-> scope, v |-> "openid"]>>),
     c3 |-> OAuth2ClientSkeleton("c3", NoValue, OAuth2Provider, NoMap, NoMap)]

\* the arrays of at most n distinct elements of S
Arrangements(S, n) ==
    {a \in UNION {[1..k -> S] : k \in 0..n} : \A i, j \in 1..Len(a) : a[i] = a[j] => i = j}

\* the map holding make(key) under every key of keys, inserted in the order of order
MapOf(order, keys, make(_)) ==
    LET present == SelectSeq(order, LAMBDA key : key \in keys)
    IN [i \in 1..Len(present) |-> [k |-> present[i], v |-> make(present[i])]]
MakePolicy(id) == PolicyPool[id]

(***************************************************************************)
(* Bundles: the export and import data.  meta is opaque and left out.      *)
(***************************************************************************)
createPolicyExportTemplate ==
    [script |-> <<>>, policy |-> <<>>, resourcetype |-> <<>>, policyset |-> <<>>]

\* the policy bundles an import is given: what an export can have written
PolicyBundles ==
    {[script |-> MapOf(ScriptOrder, ss, ScriptSkeleton),
      policy |-> [i \in 1..Len(ids) |-> [k |-> ids[i], v |-> PolicyPool[ids[i]]]],
      resourcetype |-> MapOf(ResourceTypeOrder, rts, ResourceTypeSkeleton),
      policyset |-> MapOf(PolicySetOrder, pss, PolicySetSkeleton)] :
        ids \in Arrangements(PolicyIds, MaxItems), ss \in SUBSET ScriptIds,
        rts \in SUBSET ResourceTypeUuids, pss \in SUBSET PolicySetNames}

createOAuth2ClientExportTemplate == [script |-> <<>>, application |-> <<>>]

\* the OAuth2 client bundles an import is given
ClientBundles ==
    {[script |-> MapOf(ScriptOrder, ss, ScriptSkeleton),
      application |-> [i \in 1..Len(ids) |-> [k |-> ids[i], v |-> ClientPool[ids[i]]]]] :
        ids \in Arrangements(ClientIds, MaxItems), ss \in SUBSET ScriptIds}

OAuth2ClientImportOptions == [deps : BOOLEAN]

PolicyImportOptions ==
    [deps : BOOLEAN, prereqs : BOOLEAN, policySetName : {NoValue, "ps2"}]

(***************************************************************************)
(* The state.                                                              *)
(***************************************************************************)
VARIABLES
    remote,       \* the remote store: per kind, the object stored under each id
    log,          \* the collaborator calls made so far, with their outcomes
    failures,     \* how many of them failed
    op,           \* the entry point in progress
    arg,          \* its policyId or clientId argument
    options,      \* its options
    importData,   \* the caller's bundle, as the import reads and writes it
    importData0,  \* the bundle as the caller passed it
    exportData,   \* the bundle an export builds
    listing,      \* the policies or clients an export goes through
    scripts,      \* the scripts array of getScripts
    pc,           \* where the entry point is
    idx,          \* the index of the entry its loop is at
    sub,          \* the index of the script its inner loop is at
    errors,       \* the errors array of the entry point
    subErrors,    \* the errors array of the helper in progress
    response,     \* response
    imported,     \* imported
    outcome       \* what the call returned or threw

vars == <<remote, log, failures, op, arg, options, importData, importData0, exportData, listing, scripts,
          pc, idx, sub, errors, subErrors, response, imported, outcome>>

\* the remote store holds, per kind, the objects in the order its listing
\* returns them
EmptyRemote ==
    [policy |-> <<>>, script |-> <<>>, resourcetype |-> <<>>, policyset |-> <<>>,
     application |-> <<>>, provider |-> OAuth2Provider]

Running == [kind |-> "running"]
Returned(value) == [kind |-> "return", value |-> value]
Thrown(error) == [kind |-> "throw", error |-> error]

\* the outcomes a collaborator call can have now
WriteOutcomes == IF failures < MaxFailures THEN {"ok", "fail"} ELSE {"ok"}

\* the key of the entry the loop is at
CurrentKey(m) == IF idx \in 1..Len(m) THEN m[idx].k ELSE NoValue

\* a collaborator call and its outcome, recorded
Record(call, id, data, res, owner) ==
    /\ log' = Append(log, [call |-> call, id |-> id, data |-> data, res |-> res,
                           owner |-> owner])
    /\ failures' = IF res = "ok" THEN failures ELSE failures + 1

(***************************************************************************)
(* Policy import: importPolicy, importFirstPolicy, importPolicies.  The     *)
(* three functions run the same steps on the entries their loop selects.   *)
(***************************************************************************)
PolicyImportOps == {"importPolicy", "importFirstPolicy", "importPolicies"}

StartImport(name, id, opts) ==
    /\ pc = "idle"
    /\ op' = name
    /\ arg' = id
    /\ options' = opts
    /\ pc' = "loop"
    /\ idx' = 1
    /\ sub' = 1
    /\ errors' = <<>>
    /\ subErrors' = <<>>
    /\ response' = IF name \in {"importPolicies", "importOAuth2Clients"} THEN <<>> ELSE NoObject
    /\ imported' = <<>>
    /\ UNCHANGED <<remote, log, failures, importData, importData0, exportData, listing, scripts, outcome>>

importPolicy(policyId, opts) ==
    /\ "policy" \in DOMAIN importData
    /\ StartImport("importPolicy", policyId, opts)

importFirstPolicy(opts) ==
    /\ "policy" \in DOMAIN importData
    /\ StartImport("importFirstPolicy", NoValue, opts)

importPolicies(opts) ==
    /\ "policy" \in DOMAIN importData
    /\ StartImport("importPolicies", NoValue, opts)

\* mutant: the loop takes every entry
SelectsAll(name, id, key) == TRUE

\* the test of the loop of importPolicy and of importOAuth2Client: id === policyId
Selects(name, id, key) == name \in {"importPolicy", "importOAuth2Client"} => key = id

\* the policy the loop is at
policyData == importData.policy[idx].v

\* mutant: the condition is deleted too
StripPolicyAndCondition(data, opts) ==
    [data EXCEPT !._rev = NoValue, !.condition = NoObject,
                 !.applicationName =
                     IF opts.policySetName # NoValue THEN opts.policySetName ELSE @]

\* mutant: the policy set of the bundle entry stays
StripPolicyNoOverride(data, opts) == [data EXCEPT !._rev = NoValue]

\* delete policyData._rev, and the override of the policy set
StripPolicy(data, opts) ==
    [data EXCEPT !._rev = NoValue,
                 !.applicationName =
                     IF opts.policySetName # NoValue THEN opts.policySetName ELSE @]

\* mutant: the scripts first and then nothing else, in the order of the
\* OAuth2 client import
PolicyFirstStepScriptsFirst(opts) == IF opts.deps THEN "dependencies" ELSE "updatePolicy"

\* where the steps of one policy begin
PolicyFirstStep(opts) == IF opts.prereqs THEN "resourcetype" ELSE "updatePolicy"

\* importPolicy passes over the entries whose key is not policyId
PolicySkip ==
    /\ pc = "loop"
    /\ op \in PolicyImportOps
    /\ idx <= Len(importData.policy)
    /\ ~Selects(op, arg, importData.policy[idx].k)
    /\ idx' = idx + 1
    /\ UNCHANGED <<remote, log, failures, op, arg, options, importData, importData0,
                   exportData, listing, scripts, pc, sub, errors, subErrors, response, imported, outcome>>

\* the body of the loop up to its first await
PolicyBegin ==
    /\ pc = "loop"
    /\ op \in PolicyImportOps
    /\ idx <= Len(importData.policy)
    /\ Selects(op, arg, importData.policy[idx].k)
    /\ importData' = [importData EXCEPT !.policy[idx].v = StripPolicy(@, options)]
    /\ pc' = PolicyFirstStep(options)
    /\ subErrors' = <<>>
    /\ UNCHANGED <<remote, log, failures, op, arg, options, importData0, exportData, listing, scripts,
                   idx, sub, errors, response, imported, outcome>>

\* mutant: a policy whose prerequisites failed is not written
PcAfterPrerequisitesBlocked(errs, name) ==
    IF errs = <<>> THEN "updatePolicy"
    ELSE IF name \in {"importFirstPolicy", "importFirstOAuth2Client"} THEN "exit" ELSE "loop"

\* where a policy goes after importPolicyPrerequisites: its throw is caught
\* right around the call, and updatePolicy comes next
PcAfterPrerequisites(errs, name) == "updatePolicy"

\* importPolicyPrerequisites: the resource type
importPolicyPrerequisitesResourceType ==
    /\ pc = "resourcetype"
    /\ LET uuid == policyData.resourceTypeUuid
           data == Get(importData.resourcetype, uuid)
       IN IF Has(importData.resourcetype, uuid)
          THEN \E res \in WriteOutcomes :
                /\ Record("updateResourceType", uuid, data, res, CurrentKey(importData.policy))
                /\ remote' = IF res = "ok" THEN [remote EXCEPT !.resourcetype = Put(@, uuid, data)]
                             ELSE remote
                /\ subErrors' =
                     IF res = "ok" THEN subErrors
                     ELSE Append(subErrors,
                            FrodoError("Error importing prerequisite resource type", uuid,
                                       <<ApiError("updateResourceType", uuid, res)>>))
          ELSE UNCHANGED <<remote, log, failures, subErrors>>
    /\ pc' = "policyset"
    /\ UNCHANGED <<op, arg, options, importData, importData0, exportData, listing, scripts, idx, sub,
                   errors, response, imported, outcome>>

\* importPolicyPrerequisites: the policy set, then its throw into the catch of
\* the caller when a prerequisite failed
\* mutant: the name the bundle entry was passed in with
policySetNameAsExported == Get(importData0.policy, CurrentKey(importData.policy)).applicationName
\* exportData.policyset[policyData.applicationName], after the assignment of
\* options.policySetName to policyData.applicationName
policySetNameOfPrerequisite == policyData.applicationName

importPolicyPrerequisitesPolicySet ==
    /\ pc = "policyset"
    /\ LET name == policySetNameOfPrerequisite
           data == Get(importData.policyset, name)
       IN IF Has(importData.policyset, name)
          THEN \E res \in WriteOutcomes :
                /\ Record("updatePolicySet", data.name, data, res, CurrentKey(importData.policy))
                /\ remote' = IF res = "ok" THEN [remote EXCEPT !.policyset = Put(@, data.name, data)]
                             ELSE remote
                /\ subErrors' =
                     IF res = "ok" THEN subErrors
                     ELSE Append(subErrors,
                            FrodoError("Error importing prerequisite policy set", name,
                                       <<ApiError("updatePolicySet", data.name, res)>>))
          ELSE UNCHANGED <<remote, log, failures, subErrors>>
    /\ errors' = IF subErrors' # <<>>
                 THEN Append(errors, FrodoError("Error importing prerequisites for policy",
                                                policyData._id, subErrors'))
                 ELSE errors
    /\ pc' = PcAfterPrerequisites(subErrors', op)
    /\ idx' = IF pc' = "loop" THEN idx + 1 ELSE idx
    /\ UNCHANGED <<op, arg, options, importData, importData0, exportData, listing, scripts, sub,
                   response, imported, outcome>>

\* mutant: every loop breaks after its first entry
PcAfterItemBreak(name) == "exit"

\* mutant: no loop breaks
PcAfterItemNoBreak(name) == "loop"

\* where the loop goes after the last step of an entry: importFirstPolicy and
\* importFirstOAuth2Client break
PcAfterItem(name) ==
    IF name \in {"importFirstPolicy", "importFirstOAuth2Client"} THEN "exit" ELSE "loop"

\* mutant: the scripts of a policy that could not be written are left out
PcAfterUpdatePolicyWritten(opts, name) ==
    IF opts.deps /\ errors' = errors THEN "dependencies" ELSE PcAfterItem(name)
\* where a policy goes after its own write
PcAfterUpdatePolicy(opts, name) == IF opts.deps THEN "dependencies" ELSE PcAfterItem(name)

\* updatePolicy of the policy, under its _id
updatePolicyStep ==
    /\ pc = "updatePolicy"
    /\ \E res \in WriteOutcomes :
        /\ Record("putPolicy", policyData._id, policyData, res, CurrentKey(importData.policy))
        /\ remote' = IF res = "ok" THEN [remote EXCEPT !.policy = Put(@, policyData._id, policyData)]
                     ELSE remote
        /\ response' = IF res # "ok" THEN response
                       ELSE IF op = "importPolicies" THEN Append(response, policyData)
                       ELSE policyData
        /\ imported' = IF res = "ok" /\ op # "importPolicies"
                       THEN Append(imported, CurrentKey(importData.policy)) ELSE imported
        /\ errors' = IF res = "ok" THEN errors
                     ELSE Append(errors,
                            FrodoError("Error updating policy", policyData._id,
                                       <<ApiError("putPolicy", policyData._id, res)>>))
    /\ pc' = PcAfterUpdatePolicy(options, op)
    /\ idx' = IF pc' = "loop" THEN idx + 1 ELSE idx
    /\ sub' = 1
    /\ subErrors' = <<>>
    /\ UNCHANGED <<op, arg, options, importData, importData0, exportData, listing, scripts, outcome>>

\* importPolicyDependencies: updateScript of the next script the condition
\* references, with what the bundle holds under its id.  ScriptOps is not part
\* of the sources: what updateScript does with undefined data is left open.
importPolicyDependenciesScript ==
    /\ pc = "dependencies"
    /\ LET scriptUuids == findScriptUuids(policyData.condition)
       IN /\ sub <= Len(scriptUuids)
          /\ LET scriptUuid == scriptUuids[sub]
                 scriptData == Get(importData.script, scriptUuid)
             IN \E res \in (IF scriptData = NoObject THEN {"ok", "fail"} ELSE WriteOutcomes) :
                  /\ Record("updateScript", scriptUuid, scriptData, res,
                            CurrentKey(importData.policy))
                  /\ remote' = IF res = "ok"
                               THEN [remote EXCEPT !.script = Put(@, scriptUuid, scriptData)]
                               ELSE remote
                  /\ subErrors' =
                       IF res = "ok" THEN subErrors
                       ELSE Append(subErrors,
                              FrodoError("Error importing script for policy", scriptUuid,
                                         <<ApiError("updateScript", scriptUuid, res)>>))
    /\ sub' = sub + 1
    /\ UNCHANGED <<op, arg, options, importData, importData0, exportData, listing, scripts, pc, idx,
                   errors, response, imported, outcome>>

\* importPolicyDependencies after its loop: it throws into the catch of the
\* caller when a script failed
importPolicyDependenciesEnd ==
    /\ pc = "dependencies"
    /\ sub > Len(findScriptUuids(policyData.condition))
    /\ errors' = IF subErrors # <<>>
                 THEN Append(errors, FrodoError("Error importing soft dependencies for policy",
                                                policyData._id, subErrors))
                 ELSE errors
    /\ pc' = PcAfterItem(op)
    /\ idx' = IF pc' = "loop" THEN idx + 1 ELSE idx
    /\ subErrors' = <<>>
    /\ UNCHANGED <<remote, log, failures, op, arg, options, importData, importData0,
                   exportData, listing, scripts, sub, response, imported, outcome>>

\* mutant: no test of imported
ImportOutcomeNoNotFound(name, id, errs, done, resp) ==
    IF errs # <<>> THEN Thrown(FrodoError("Error importing", id, errs)) ELSE Returned(resp)

\* mutant: only a failed write of the object itself makes the import throw
ImportOutcomePrimaryOnly(name, id, errs, done, resp) ==
    IF \E n \in 1..Len(LeavesOfSeq(errs)) :
            LeavesOfSeq(errs)[n].call \in {"putPolicy", "putOAuth2Client"}
    THEN Thrown(FrodoError("Error importing", id, errs))
    ELSE IF name \notin {"importPolicies", "importOAuth2Clients"} /\ done = <<>>
    THEN Thrown(FrodoError(IF id = NoValue THEN "No objects found in import data"
                           ELSE "not found in import data", id, <<>>))
    ELSE Returned(resp)

\* the end of an import: what it throws or returns
ImportOutcome(name, id, errs, done, resp) ==
    IF errs # <<>> THEN Thrown(FrodoError("Error importing", id, errs))
    ELSE IF name \notin {"importPolicies", "importOAuth2Clients"} /\ done = <<>>
    THEN Thrown(FrodoError(IF id = NoValue THEN "No objects found in import data"
                           ELSE "not found in import data", id, <<>>))
    ELSE Returned(resp)

PolicyImportEnd ==
    /\ op \in PolicyImportOps
    /\ \/ pc = "exit"
       \/ pc = "loop" /\ idx > Len(importData.policy)
    /\ outcome' = ImportOutcome(op, arg, errors, imported, response)
    /\ pc' = "done"
    /\ UNCHANGED <<remote, log, failures, op, arg, options, importData, importData0,
                   exportData, listing, scripts, idx, sub, errors, subErrors, response, imported>>

InitIdle ==
    /\ log = <<>>
    /\ failures = 0
    /\ op = "none"
    /\ arg = NoValue
    /\ options = [deps |-> FALSE, prereqs |-> FALSE, policySetName |-> NoValue]
    /\ exportData = NoObject
    /\ listing = <<>>
    /\ scripts = <<>>
    /\ pc = "idle"
    /\ idx = 1
    /\ sub = 1
    /\ errors = <<>>
    /\ subErrors = <<>>
    /\ response = NoObject
    /\ imported = <<>>
    /\ outcome = Running

(***************************************************************************)
(* updateOAuth2Client, as the steps of the call in progress.  The put can  *)
(* be rejected with 400 "Invalid attribute specified." and the list of     *)
(* the valid attributes; then the attributes of the nested objects that    *)
(* the list does not name are deleted from clientData, which is put again. *)
(***************************************************************************)
\* the lists of valid attributes the server can report
ValidAttributeLists == {<<aScript, bScript, Scripts, script>>, <<aScript, scope>>}

PutOutcomes ==
    IF failures < MaxFailures
    THEN {[res |-> "ok"], [res |-> "fail"]}
         \cup {[res |-> "invalid", validAttributes |-> v] : v \in ValidAttributeLists}
    ELSE {[res |-> "ok"]}

\* delete clientData[key][attribute] for every attribute of a nested object
\* that validAttributes, with _id pushed, does not include; the nested
\* objects of a client are overrideOAuth2ClientConfig, coreOAuth2ClientConfig
\* and, where it was not deleted before, _provider
\* mutant: '_id' is not pushed to validAttributes
RemoveInvalidAttributesAndId(clientData, validAttributes) ==
    LET valid == Range(validAttributes)
        Keep(obj) == SelectSeq(obj, LAMBDA e : e.k \in valid)
    IN [clientData EXCEPT !.overrideOAuth2ClientConfig = Keep(@),
                          !.coreOAuth2ClientConfig = Keep(@),
                          !._provider = IF @ = NoObject THEN @
                                        ELSE [_id |-> IF underscoreId \in valid
                                                      THEN @._id ELSE NoValue,
                                              _type |-> IF underscoreType \in valid
                                                        THEN @._type ELSE NoValue]]
RemoveInvalidAttributes(clientData, validAttributes) ==
    LET valid == Range(Append(validAttributes, underscoreId))
        Keep(obj) == SelectSeq(obj, LAMBDA e : e.k \in valid)
    IN [clientData EXCEPT !.overrideOAuth2ClientConfig = Keep(@),
                          !.coreOAuth2ClientConfig = Keep(@),
                          !._provider = IF @ = NoObject THEN @
                                        ELSE [_id |-> IF underscoreId \in valid
                                                      THEN @._id ELSE NoValue,
                                              _type |-> IF underscoreType \in valid
                                                        THEN @._type ELSE NoValue]]

(***************************************************************************)
(* OAuth2 client import: importOAuth2Client, importFirstOAuth2Client,      *)
(* importOAuth2Clients.                                                    *)
(***************************************************************************)
ClientImportOps == {"importOAuth2Client", "importFirstOAuth2Client", "importOAuth2Clients"}

importOAuth2Client(clientId, opts) ==
    /\ "application" \in DOMAIN importData
    /\ StartImport("importOAuth2Client", clientId, opts)

importFirstOAuth2Client(opts) ==
    /\ "application" \in DOMAIN importData
    /\ StartImport("importFirstOAuth2Client", NoValue, opts)

importOAuth2Clients(opts) ==
    /\ "application" \in DOMAIN importData
    /\ StartImport("importOAuth2Clients", NoValue, opts)

\* the client the loop is at
clientData == importData.application[idx].v

\* mutant: _provider stays
StripClientRevOnly(data) == [data EXCEPT !._rev = NoValue]
\* delete clientData._provider; delete clientData._rev
StripClient(data) == [data EXCEPT !._provider = NoObject, !._rev = NoValue]

\* mutant: the client first, its scripts never
ClientFirstStepNoScripts(opts) == "updateOAuth2Client"

\* where the steps of one client begin
ClientFirstStep(opts) == IF opts.deps THEN "clientDependencies" ELSE "updateOAuth2Client"

\* importOAuth2Client passes over the entries whose key is not clientId
ClientSkip ==
    /\ pc = "loop"
    /\ op \in ClientImportOps
    /\ idx <= Len(importData.application)
    /\ ~Selects(op, arg, importData.application[idx].k)
    /\ idx' = idx + 1
    /\ UNCHANGED <<remote, log, failures, op, arg, options, importData, importData0,
                   exportData, listing, scripts, pc, sub, errors, subErrors, response, imported, outcome>>

\* the body of the loop up to its first await
ClientBegin ==
    /\ pc = "loop"
    /\ op \in ClientImportOps
    /\ idx <= Len(importData.application)
    /\ Selects(op, arg, importData.application[idx].k)
    /\ importData' = [importData EXCEPT !.application[idx].v = StripClient(@)]
    /\ pc' = ClientFirstStep(options)
    /\ sub' = 1
    /\ UNCHANGED <<remote, log, failures, op, arg, options, importData0, exportData, listing, scripts,
                   idx, errors, subErrors, response, imported, outcome>>

\* mutant: the sentinel is taken for a script id
IsImportedScriptReferenceNoSentinel(entry, data) ==
    /\ endsWith(entry.k, Script)
    /\ Has(data.script, entry.v)

\* does this entry of overrideOAuth2ClientConfig name a script to import
IsImportedScriptReference(entry, data) ==
    /\ endsWith(entry.k, Script)
    /\ entry.v # Empty
    /\ Has(data.script, entry.v)

\* the entries of overrideOAuth2ClientConfig, none when the client has none
OverrideEntries(data) == data.overrideOAuth2ClientConfig

\* mutant: the error is kept and the keys that remain are gone through
PcAfterScriptFailureGoesOn(name) == "clientDependencies"
\* the FrodoError importOAuth2ClientDependencies throws leaves its loop and
\* the try block of the caller, for the catch that pushes it
PcAfterScriptFailure(name) == PcAfterItem(name)

\* importOAuth2ClientDependencies: the next key of overrideOAuth2ClientConfig.
\* A failed updateScript is thrown into the catch of the loop of the caller,
\* which ends the steps of this client.
importOAuth2ClientDependenciesKey ==
    /\ pc = "clientDependencies"
    /\ sub <= Len(OverrideEntries(clientData))
    /\ LET entry == OverrideEntries(clientData)[sub]
           scriptId == entry.v
           scriptData == Get(importData.script, scriptId)
       IN IF IsImportedScriptReference(entry, importData)
          THEN \E res \in WriteOutcomes :
                /\ Record("updateScript", scriptId, scriptData, res,
                          CurrentKey(importData.application))
                /\ remote' = IF res = "ok" THEN [remote EXCEPT !.script = Put(@, scriptId, scriptData)]
                             ELSE remote
                /\ errors' =
                     IF res = "ok" THEN errors
                     ELSE Append(errors,
                            FrodoError("Error importing script dependency", scriptId,
                                       <<ApiError("updateScript", scriptId, res)>>))
                /\ pc' = IF res = "ok" THEN pc ELSE PcAfterScriptFailure(op)
          ELSE UNCHANGED <<remote, log, failures, errors, pc>>
    /\ sub' = sub + 1
    /\ idx' = IF pc' = "loop" THEN idx + 1 ELSE idx
    /\ UNCHANGED <<op, arg, options, importData, importData0, exportData, listing, scripts, subErrors,
                   response, imported, outcome>>

importOAuth2ClientDependenciesEnd ==
    /\ pc = "clientDependencies"
    /\ sub > Len(OverrideEntries(clientData))
    /\ pc' = "updateOAuth2Client"
    /\ UNCHANGED <<remote, log, failures, op, arg, options, importData, importData0,
                   exportData, listing, scripts, idx, sub, errors, subErrors, response, imported, outcome>>

\* the client written, as response and imported keep it
ClientWritten(name, resp, data) ==
    IF name = "importOAuth2Clients" THEN Append(resp, data) ELSE data

\* updateOAuth2Client of the client under its key: the first put
updateOAuth2ClientPut ==
    /\ pc = "updateOAuth2Client"
    /\ LET id == CurrentKey(importData.application)
       IN \E out \in PutOutcomes :
            /\ Record("putOAuth2Client", id, clientData, out.res, id)
            /\ remote' = IF out.res = "ok" THEN [remote EXCEPT !.application = Put(@, id, clientData)]
                         ELSE remote
            /\ response' = IF out.res = "ok" THEN ClientWritten(op, response, clientData)
                           ELSE response
            /\ imported' = IF out.res = "ok" /\ op # "importOAuth2Clients"
                           THEN Append(imported, id) ELSE imported
            /\ errors' = IF out.res = "fail"
                         THEN Append(errors,
                                FrodoError("Error updating oauth2 client", id,
                                           <<ApiError("putOAuth2Client", id, out.res)>>))
                         ELSE errors
            /\ importData' =
                 IF out.res = "invalid"
                 THEN [importData EXCEPT !.application[idx].v =
                          RemoveInvalidAttributes(@, out.validAttributes)]
                 ELSE importData
            /\ pc' = IF out.res = "invalid" THEN "updateOAuth2ClientRetry" ELSE PcAfterItem(op)
    /\ idx' = IF pc' = "loop" THEN idx + 1 ELSE idx
    /\ UNCHANGED <<op, arg, options, importData0, exportData, listing, scripts, sub, subErrors, outcome>>

\* mutant: the error of the first put is the one thrown
RetryErrorOriginal(original, error) == original
\* the inner catch (error): the error of the second put shadows that of the first
RetryError(original, error) == error

\* updateOAuth2Client: the second put, of the repaired clientData
updateOAuth2ClientRetry ==
    /\ pc = "updateOAuth2ClientRetry"
    /\ LET id == CurrentKey(importData.application)
       IN \E out \in PutOutcomes :
            /\ Record("putOAuth2Client", id, clientData, out.res, id)
            /\ remote' = IF out.res = "ok" THEN [remote EXCEPT !.application = Put(@, id, clientData)]
                         ELSE remote
            /\ response' = IF out.res = "ok" THEN ClientWritten(op, response, clientData)
                           ELSE response
            /\ imported' = IF out.res = "ok" /\ op # "importOAuth2Clients"
                           THEN Append(imported, id) ELSE imported
            /\ errors' = IF out.res # "ok"
                         THEN Append(errors,
                                FrodoError("Error updating oauth2 client", id,
                                    <<RetryError(ApiError("putOAuth2Client", id, "invalid"),
                                                 ApiError("putOAuth2Client", id, out.res))>>))
                         ELSE errors
    /\ pc' = PcAfterItem(op)
    /\ idx' = IF pc' = "loop" THEN idx + 1 ELSE idx
    /\ UNCHANGED <<op, arg, options, importData, importData0, exportData, listing, scripts, sub, subErrors,
                   outcome>>

ClientImportEnd ==
    /\ op \in ClientImportOps
    /\ \/ pc = "exit"
       \/ pc = "loop" /\ idx > Len(importData.application)
    /\ outcome' = ImportOutcome(op, arg, errors, imported, response)
    /\ pc' = "done"
    /\ UNCHANGED <<remote, log, failures, op, arg, options, importData, importData0,
                   exportData, listing, scripts, idx, sub, errors, subErrors, response, imported>>

InitImport ==
    /\ InitIdle
    /\ remote = EmptyRemote
    /\ importData \in PolicyBundles \cup ClientBundles
    /\ importData0 = importData

NextImport ==
    \/ \E policyId \in PolicyIds, opts \in PolicyImportOptions : importPolicy(policyId, opts)
    \/ \E opts \in PolicyImportOptions : importFirstPolicy(opts)
    \/ \E opts \in PolicyImportOptions : importPolicies(opts)
    \/ PolicySkip
    \/ PolicyBegin
    \/ importPolicyPrerequisitesResourceType
    \/ importPolicyPrerequisitesPolicySet
    \/ updatePolicyStep
    \/ importPolicyDependenciesScript
    \/ importPolicyDependenciesEnd
    \/ PolicyImportEnd
    \/ \E clientId \in ClientIds, opts \in OAuth2ClientImportOptions :
         importOAuth2Client(clientId, opts)
    \/ \E opts \in OAuth2ClientImportOptions : importFirstOAuth2Client(opts)
    \/ \E opts \in OAuth2ClientImportOptions : importOAuth2Clients(opts)
    \/ ClientSkip
    \/ ClientBegin
    \/ importOAuth2ClientDependenciesKey
    \/ importOAuth2ClientDependenciesEnd
    \/ updateOAuth2ClientPut
    \/ updateOAuth2ClientRetry
    \/ ClientImportEnd

SpecImport == InitImport /\ [][NextImport]_vars

(***************************************************************************)
(* What the log says.                                                      *)
(***************************************************************************)
LogIndices == 1..Len(log)
Done == pc = "done"
PrimaryCollection == IF "policy" \in DOMAIN importData THEN importData.policy
                     ELSE importData.application
PrimaryCollection0 == IF "policy" \in DOMAIN importData0 THEN importData0.policy
                      ELSE importData0.application
PrimaryCalls == {"putPolicy", "putOAuth2Client"}

\* the second put of one updateOAuth2Client: it follows the rejected first put
IsRetry(i) ==
    /\ i > 1
    /\ log[i].call = "putOAuth2Client"
    /\ log[i - 1].call = "putOAuth2Client"
    /\ log[i - 1].res = "invalid"
    /\ log[i - 1].owner = log[i].owner
    /\ ~(i > 2 /\ log[i - 2].call = "putOAuth2Client" /\ log[i - 2].res = "invalid"
               /\ log[i - 2].owner = log[i].owner)

\* the first put of an updateOAuth2Client whose second put was made: its
\* rejection is repaired, not thrown
IsRepaired(i) == i < Len(log) /\ IsRetry(i + 1)

\* the failed calls that were not repaired, in order
RECURSIVE FailedCallsUpTo(_)
FailedCallsUpTo(n) ==
    IF n = 0 THEN <<>>
    ELSE IF log[n].res # "ok" /\ ~IsRepaired(n)
    THEN Append(FailedCallsUpTo(n - 1), [call |-> log[n].call, id |-> log[n].id, res |-> log[n].res])
    ELSE FailedCallsUpTo(n - 1)
FailedCalls == FailedCallsUpTo(Len(log))

(***************************************************************************)
(* C1.  Policy import with prereqs and deps: among the writes made for one *)
(* policy, the resource type is written first, the policy set second, both *)
(* before the policy (each of them whenever the bundle holds it), and the  *)
(* policy is written before every script written for it.  (In              *)
(* importPolicies a script shared with an earlier policy was written with  *)
(* that earlier policy.)                                                   *)
(***************************************************************************)
C1_PolicyImportOrder ==
    (op \in PolicyImportOps /\ options.prereqs /\ options.deps) =>
        \A j \in LogIndices :
            /\ log[j].call = "putPolicy" =>
                LET data == log[j].data
                    Before(call, id) == {i \in 1..(j - 1) : /\ log[i].call = call
                                                            /\ log[i].id = id
                                                            /\ log[i].owner = log[j].owner}
                    rts == Before("updateResourceType", data.resourceTypeUuid)
                    pss == Before("updatePolicySet", data.applicationName)
                IN /\ Has(importData.resourcetype, data.resourceTypeUuid) => Cardinality(rts) = 1
                   /\ Has(importData.policyset, data.applicationName) => Cardinality(pss) = 1
                   /\ \A r \in rts, q \in pss : r < q
                   /\ \A i \in LogIndices :
                        (i > j /\ log[i].owner = log[j].owner) => log[i].call = "updateScript"
            /\ log[j].call = "updateScript" =>
                \E i \in 1..(j - 1) : log[i].call = "putPolicy" /\ log[i].owner = log[j].owner
            /\ log[j].call \in {"updateResourceType", "updatePolicySet"} =>
                \A i \in 1..(j - 1) :
                    log[i].owner = log[j].owner =>
                        log[i].call = "updateResourceType" /\ log[j].call = "updatePolicySet"

\* importPolicies wrote, for its second policy, the resource type, the policy
\* set, the policy and a script, and ended
C1_Witness ==
    /\ Done /\ op = "importPolicies" /\ options.prereqs /\ options.deps
    /\ Len(importData.policy) = 2
    /\ \E a, b, c, d \in LogIndices :
        /\ a < b /\ b < c /\ c < d
        /\ log[a].call = "updateResourceType" /\ log[b].call = "updatePolicySet"
        /\ log[c].call = "putPolicy" /\ log[d].call = "updateScript"
        /\ {log[a].owner, log[b].owner, log[c].owner, log[d].owner} = {importData.policy[2].k}

IsSelected(i) ==
    /\ Selects(op, arg, PrimaryCollection0[i].k)
    /\ op \in {"importFirstPolicy", "importFirstOAuth2Client"} => i = 1

\* the attributes of a nested object that a repair with the list valid keeps
Kept(obj, valid) == SelectSeq(obj, LAMBDA e : e.k \in Range(valid) \cup {underscoreId})

C4_EveryEntryAttempted ==
    (Done /\ op \in {"importPolicies", "importOAuth2Clients"}) =>
        /\ \A n \in 1..Len(PrimaryCollection) :
            LET key == PrimaryCollection[n].k
            IN \E j \in LogIndices :
                /\ log[j].owner = key
                /\ \/ log[j].call \in PrimaryCalls /\ log[j].id = key
                   \/ op = "importOAuth2Clients" /\ log[j].call = "updateScript"
                      /\ log[j].res # "ok"
        /\ \A j \in LogIndices :
            (log[j].res = "ok" /\ log[j].call \in PrimaryCalls) =>
                /\ log[j].call = "putPolicy" => Get(remote.policy, log[j].id) = log[j].data
                /\ log[j].call = "putOAuth2Client" => Get(remote.application, log[j].id) = log[j].data
        /\ LeavesOfSeq(errors) = FailedCalls
        /\ \A n \in 1..Len(errors) : Leaves(errors[n]) # <<>>
        /\ errors # <<>> => outcome = Thrown(FrodoError("Error importing", arg, errors))
        /\ errors = <<>> => outcome.kind = "return" /\ Len(outcome.value) = Len(PrimaryCollection)

\* importPolicies has ended: the write of the first policy failed, the write of
\* the second succeeded and is in the remote store
C4_Witness ==
    /\ Done /\ op = "importPolicies"
    /\ \E a, b \in LogIndices :
        /\ a < b
        /\ log[a].call = "putPolicy" /\ log[a].res = "fail"
        /\ log[b].call = "putPolicy" /\ log[b].res = "ok"
        /\ Get(remote.policy, log[b].id) = log[b].data
    /\ outcome.kind = "throw"
    /\ Len(errors) = 1

(***************************************************************************)
(* C5.  importPolicy and importOAuth2Client with an id that is no key of   *)
(* the primary collection make no collaborator call at all, leave the      *)
(* remote store as it was, and throw "not found in import data".           *)
(***************************************************************************)
C5_NotFoundWritesNothing ==
    (op \in {"importPolicy", "importOAuth2Client"} /\ arg \notin KeySet(PrimaryCollection0)) =>
        /\ log = <<>>
        /\ remote = EmptyRemote
        /\ importData = importData0
        /\ Done => outcome = Thrown(FrodoError("not found in import data", arg, <<>>))

\* importOAuth2Client has ended on a bundle of two clients, neither of which
\* has the id asked for
C5_Witness ==
    /\ Done /\ op = "importOAuth2Client"
    /\ Len(importData.application) = 2
    /\ arg \notin KeySet(importData.application)
    /\ outcome.kind = "throw"

C7_ImportsFirstOnly ==
    op \in {"importFirstPolicy", "importFirstOAuth2Client"} =>
        /\ \A j \in LogIndices :
            /\ log[j].owner = PrimaryCollection0[1].k
            /\ log[j].call \in PrimaryCalls => log[j].id = PrimaryCollection0[1].k
        /\ Cardinality({j \in LogIndices : log[j].call \in PrimaryCalls /\ ~IsRetry(j)}) <= 1
        /\ \A i \in 2..Len(PrimaryCollection) : PrimaryCollection[i] = PrimaryCollection0[i]
        /\ PrimaryCollection0 = <<>> =>
            /\ log = <<>>
            /\ remote = EmptyRemote
            /\ Done => outcome = Thrown(FrodoError("No objects found in import data", arg, <<>>))
        /\ (Done /\ PrimaryCollection0 # <<>>) => log # <<>>

\* importFirstPolicy has ended after writing the first of two policies
C7_Witness ==
    /\ Done /\ op = "importFirstPolicy"
    /\ Len(importData.policy) = 2
    /\ Get(remote.policy, importData.policy[1].k) # NoObject
    /\ Get(remote.policy, importData.policy[2].k) = NoObject

\* importFirstOAuth2Client has ended on a bundle with no client
C7_WitnessEmpty ==
    /\ Done /\ op = "importFirstOAuth2Client"
    /\ importData.application = <<>>
    /\ outcome.kind = "throw"

(***************************************************************************)
(* Export.  The remote store holds the objects; a read of an object it     *)
(* does not hold fails.  A read can also fail with the "notAvailable"      *)
(* response.                                                               *)
(***************************************************************************)
PolicyExportOps == {"exportPolicy", "exportPolicies", "exportPoliciesByPolicySet"}
ClientExportOps == {"exportOAuth2Client", "exportOAuth2Clients"}

PolicyExportOptions == [deps : BOOLEAN, prereqs : BOOLEAN, useStringArrays : BOOLEAN]
OAuth2ClientExportOptions == [deps : BOOLEAN, useStringArrays : BOOLEAN]

\* convertBase64TextToArray: the text as an array of lines
convertBase64TextToArray(text) == [text EXCEPT !.enc = "array"]

\* the values of a map, in the order of its keys
Values(m) == [i \in 1..Len(m) |-> m[i].v]

\* a client as the remote store holds it: _provider is attached by the export
StoredClient(id) == [ClientPool[id] EXCEPT !._provider = NoObject]

\* the outcomes a read can have now
ReadOutcomes(exists) ==
    IF ~exists THEN {"fail"}
    ELSE IF failures < MaxFailures THEN {"ok", "fail", "notAvailable"}
    ELSE {"ok"}

StartExport(name, id, opts, template, first) ==
    /\ pc = "idle"
    /\ op' = name
    /\ arg' = id
    /\ options' = opts
    /\ exportData' = template
    /\ listing' = <<>>
    /\ scripts' = <<>>
    /\ pc' = first
    /\ idx' = 1
    /\ sub' = 1
    /\ errors' = <<>>
    /\ subErrors' = <<>>
    /\ UNCHANGED <<remote, log, failures, importData, importData0, response, imported, outcome>>

exportPolicy(policyId, opts) ==
    StartExport("exportPolicy", policyId, opts, createPolicyExportTemplate, "getPolicy")

exportPolicies(opts) ==
    StartExport("exportPolicies", NoValue, opts, createPolicyExportTemplate, "readPolicies")

exportPoliciesByPolicySet(policySetName, opts) ==
    StartExport("exportPoliciesByPolicySet", policySetName, opts, createPolicyExportTemplate,
                "readPolicies")

exportOAuth2Clients(opts) ==
    StartExport("exportOAuth2Clients", NoValue, opts, createOAuth2ClientExportTemplate,
                "readOAuth2Provider")

exportOAuth2Client(clientId, opts) ==
    StartExport("exportOAuth2Client", clientId, opts, createOAuth2ClientExportTemplate,
                "readOAuth2Client")

\* mutant: the loop takes the listing from its end
exportedFromTheEnd == listing[Len(listing) + 1 - idx]
\* the policy or client the loop of an export is at
exported == listing[idx]

\* exportPolicy: _getPolicy; its failure is thrown from the outer catch
exportPolicyGet ==
    /\ pc = "getPolicy"
    /\ \E res \in ReadOutcomes(Has(remote.policy, arg)) :
        /\ Record("getPolicy", arg, NoObject, res, arg)
        /\ listing' = IF res = "ok" THEN <<Get(remote.policy, arg)>> ELSE listing
        /\ pc' = IF res = "ok" THEN "exportLoop" ELSE "done"
        /\ outcome' = IF res = "ok" THEN outcome
                      ELSE Thrown(FrodoError("Error exporting policy", arg,
                                             <<ApiError("getPolicy", arg, res)>>))
    /\ UNCHANGED <<remote, op, arg, options, importData, importData0, exportData, scripts,
                   idx, sub, errors, subErrors, response, imported>>

\* the policies readPolicies or readPoliciesByPolicySet resolves to
PoliciesListed(name, policySetName) ==
    IF name = "exportPolicies" THEN Values(remote.policy)
    ELSE SelectSeq(Values(remote.policy), LAMBDA p : p.applicationName = policySetName)

\* exportPolicies and exportPoliciesByPolicySet: the listing; its failure is
\* thrown from the outer catch
exportPoliciesRead ==
    /\ pc = "readPolicies"
    /\ \E res \in ReadOutcomes(TRUE) :
        /\ Record("getPolicies", arg, NoObject, res, NoValue)
        /\ listing' = IF res = "ok" THEN PoliciesListed(op, arg) ELSE listing
        /\ pc' = IF res = "ok" THEN "exportLoop" ELSE "done"
        /\ outcome' = IF res = "ok" THEN outcome
                      ELSE Thrown(FrodoError("Error exporting policies", arg,
                                   <<FrodoError("Error reading policies", arg,
                                                <<ApiError("getPolicies", arg, res)>>)>>))
    /\ UNCHANGED <<remote, op, arg, options, importData, importData0, exportData, scripts,
                   idx, sub, errors, subErrors, response, imported>>

\* where the steps of one exported policy begin, and go on after the
\* prerequisites; "exportLoop" is the next policy
\* mutant: the prerequisites are read whatever the options say
PcAfterExportBeginPrerequisitesAlways(opts) == "exportResourceType"
PcAfterExportBegin(opts) ==
    IF opts.prereqs THEN "exportResourceType"
    ELSE IF opts.deps THEN "getScripts" ELSE "exportLoop"
\* mutant: a resource type that could not be read ends the steps of the policy
PcAfterExportPrerequisitesBlocked(opts) ==
    IF opts.deps /\ subErrors = <<>> THEN "getScripts" ELSE "exportLoop"
PcAfterExportPrerequisites(opts) == IF opts.deps THEN "getScripts" ELSE "exportLoop"

\* exportData.policy[policyData._id] = policyData
exportPolicyBegin ==
    /\ pc = "exportLoop"
    /\ op \in PolicyExportOps
    /\ idx <= Len(listing)
    /\ exportData' = [exportData EXCEPT !.policy = Put(@, exported._id, exported)]
    /\ pc' = PcAfterExportBegin(options)
    /\ idx' = IF pc' = "exportLoop" THEN idx + 1 ELSE idx
    /\ sub' = 1
    /\ subErrors' = <<>>
    /\ scripts' = <<>>
    /\ UNCHANGED <<remote, log, failures, op, arg, options, importData, importData0,
                   listing, errors, response, imported, outcome>>

\* exportPolicyPrerequisites: the resource type
exportPolicyPrerequisitesResourceType ==
    /\ pc = "exportResourceType"
    /\ LET uuid == exported.resourceTypeUuid
       IN IF uuid # NoValue
          THEN \E res \in ReadOutcomes(Has(remote.resourcetype, uuid)) :
                /\ Record("getResourceType", uuid, NoObject, res, exported._id)
                /\ exportData' =
                     IF res = "ok"
                     THEN [exportData EXCEPT
                             !.resourcetype = Put(@, uuid, Get(remote.resourcetype, uuid))]
                     ELSE exportData
                /\ subErrors' = IF res = "ok" THEN subErrors
                                ELSE Append(subErrors, ApiError("getResourceType", uuid, res))
          ELSE UNCHANGED <<log, failures, exportData, subErrors>>
    /\ pc' = "exportPolicySet"
    /\ UNCHANGED <<remote, op, arg, options, importData, importData0, listing, scripts,
                   idx, sub, errors, response, imported, outcome>>

\* exportPolicyPrerequisites: the policy set, then its throw into the catch of
\* the caller when a prerequisite failed
exportPolicyPrerequisitesPolicySet ==
    /\ pc = "exportPolicySet"
    /\ LET name == exported.applicationName
           thrown(errs) == IF errs # <<>>
                           THEN Append(errors,
                                       FrodoError("Error exporting policy prerequisites",
                                                  exported._id, errs))
                           ELSE errors
       IN IF name # NoValue
          THEN \E res \in ReadOutcomes(Has(remote.policyset, name)) :
                /\ Record("readPolicySet", name, NoObject, res, exported._id)
                /\ exportData' =
                     IF res = "ok"
                     THEN [exportData EXCEPT
                             !.policyset = Put(@, name, Get(remote.policyset, name))]
                     ELSE exportData
                /\ errors' = thrown(IF res = "ok" THEN subErrors
                                    ELSE Append(subErrors,
                                                ApiError("readPolicySet", name, res)))
          ELSE /\ errors' = thrown(subErrors)
               /\ UNCHANGED <<log, failures, exportData>>
    /\ subErrors' = <<>>
    /\ pc' = PcAfterExportPrerequisites(options)
    /\ idx' = IF pc' = "exportLoop" THEN idx + 1 ELSE idx
    /\ UNCHANGED <<remote, op, arg, options, importData, importData0, listing, scripts,
                   sub, response, imported, outcome>>

\* mutant: getScripts throws at the first script it cannot read
GetScriptsGoesOnStop(errs) == errs = <<>>

\* getScripts goes on to the next script whatever was caught so far
GetScriptsGoesOn(errs) == TRUE

\* getScripts: readScript of the next script
getScriptsRead ==
    /\ pc = "getScripts"
    /\ sub <= Len(findScriptUuids(exported.condition))
    /\ GetScriptsGoesOn(subErrors)
    /\ LET scriptUuid == findScriptUuids(exported.condition)[sub]
       IN \E res \in ReadOutcomes(Has(remote.script, scriptUuid)) :
            /\ Record("readScript", scriptUuid, NoObject, res, exported._id)
            /\ scripts' = IF res = "ok" THEN Append(scripts, Get(remote.script, scriptUuid))
                          ELSE scripts
            /\ subErrors' = IF res = "ok" THEN subErrors
                            ELSE Append(subErrors,
                                   FrodoError("Error retrieving script referenced in policy",
                                              scriptUuid,
                                              <<ApiError("readScript", scriptUuid, res)>>))
    /\ sub' = sub + 1
    /\ UNCHANGED <<remote, op, arg, options, importData, importData0, exportData, listing,
                   pc, idx, errors, response, imported, outcome>>

\* exportData.script[scriptData._id] = scriptData for every script of the array
RECURSIVE AddScripts(_, _, _)
\* mutant: the bundle's scripts are a list that every script read is added to
AddScriptsToList(bundleScripts, scriptArray, opts) ==
    bundleScripts \o [n \in 1..Len(scriptArray) |->
                        [k |-> scriptArray[n]._id,
                         v |-> IF opts.useStringArrays
                               THEN [scriptArray[n] EXCEPT
                                       !.script = convertBase64TextToArray(@)]
                               ELSE scriptArray[n]]]
AddScripts(bundleScripts, scriptArray, opts) ==
    IF scriptArray = <<>> THEN bundleScripts
    ELSE LET scriptData == Head(scriptArray)
             converted == IF opts.useStringArrays
                          THEN [scriptData EXCEPT !.script = convertBase64TextToArray(@)]
                          ELSE scriptData
         IN AddScripts(Put(bundleScripts, scriptData._id, converted), Tail(scriptArray), opts)

\* getScripts after its loop, and exportPolicyDependencies: the scripts read go
\* into the bundle when all were read; else getScripts throws its errors,
\* which exportPolicyDependencies wraps and throws into the catch of the caller
exportPolicyDependenciesEnd ==
    /\ pc = "getScripts"
    /\ sub > Len(findScriptUuids(exported.condition)) \/ ~GetScriptsGoesOn(subErrors)
    /\ exportData' = IF subErrors = <<>>
                     THEN [exportData EXCEPT !.script = AddScripts(@, scripts, options)]
                     ELSE exportData
    /\ errors' = IF subErrors = <<>> THEN errors
                 ELSE Append(errors,
                        FrodoError("Error exporting policy dependencies", exported._id,
                            <<FrodoError("Error getting policy scripts", exported._id,
                                         subErrors)>>))
    /\ pc' = "exportLoop"
    /\ idx' = idx + 1
    /\ scripts' = <<>>
    /\ subErrors' = <<>>
    /\ UNCHANGED <<remote, log, failures, op, arg, options, importData, importData0,
                   listing, sub, response, imported, outcome>>

\* mutant: the bundle gathered so far is returned with the errors dropped
ExportOutcomePartial(name, id, errs, bundle) == Returned(bundle)

\* the end of an export: the bundle when nothing failed, else one error that
\* holds the errors array (exportPolicy throws it inside its try, and its
\* catch wraps it again)
ExportOutcome(name, id, errs, bundle) ==
    IF errs = <<>> THEN Returned(bundle)
    ELSE IF name = "exportPolicy"
    THEN Thrown(FrodoError("Error exporting", id, <<FrodoError("Error exporting", id, errs)>>))
    ELSE Thrown(FrodoError("Error exporting", id, errs))

ExportEnd ==
    /\ pc = "exportLoop"
    /\ op \in PolicyExportOps \cup ClientExportOps
    /\ idx > Len(listing)
    /\ outcome' = ExportOutcome(op, arg, errors, exportData)
    /\ pc' = "done"
    /\ UNCHANGED <<remote, log, failures, op, arg, options, importData, importData0,
                   exportData, listing, scripts, idx, sub, errors, subErrors, response,
                   imported>>

\* exportOAuth2Client: readOAuth2Client, which returns the promise of the call
\* from inside its try, so that its catch wraps nothing
exportOAuth2ClientRead ==
    /\ pc = "readOAuth2Client"
    /\ \E res \in ReadOutcomes(Has(remote.application, arg)) :
        /\ Record("getOAuth2Client", arg, NoObject, res, arg)
        /\ listing' = IF res = "ok" THEN <<Get(remote.application, arg)>> ELSE listing
        /\ errors' = IF res = "ok" THEN errors
                     ELSE Append(errors, ApiError("getOAuth2Client", arg, res))
        /\ pc' = IF res = "ok" THEN "readOAuth2Provider" ELSE "exportLoop"
    /\ UNCHANGED <<remote, op, arg, options, importData, importData0, exportData, scripts,
                   idx, sub, subErrors, response, imported, outcome>>

\* readOAuth2Provider, first in exportOAuth2Clients and after the client in
\* exportOAuth2Client; its failure ends the export in the outer catch
exportReadOAuth2Provider ==
    /\ pc = "readOAuth2Provider"
    /\ \E res \in ReadOutcomes(TRUE) \ {"notAvailable"} :
        /\ Record("readOAuth2Provider", NoValue, NoObject, res, arg)
        /\ response' = IF res = "ok" THEN remote.provider ELSE response
        /\ errors' = IF res = "ok" THEN errors
                     ELSE Append(errors, ApiError("readOAuth2Provider", NoValue, res))
        /\ listing' = IF res = "ok" THEN listing ELSE <<>>
        /\ pc' = IF res = "ok" /\ op = "exportOAuth2Clients" THEN "readOAuth2Clients"
                 ELSE "exportLoop"
    /\ UNCHANGED <<remote, op, arg, options, importData, importData0, exportData, scripts,
                   idx, sub, subErrors, imported, outcome>>

\* mutant: no answer of the listing is taken for an empty listing
IsListingNotAvailableNever(res) == FALSE

\* error.response?.status === 403 && error.response?.data?.message ===
\* 'This operation is not available in PingOne Advanced Identity Cloud.'
IsListingNotAvailable(res) == res = "notAvailable"

\* readOAuth2Clients: the answer "notAvailable" is an empty listing, any other
\* failure is wrapped and ends the export in the outer catch
exportReadOAuth2Clients ==
    /\ pc = "readOAuth2Clients"
    /\ \E res \in ReadOutcomes(TRUE) :
        /\ Record("getOAuth2Clients", NoValue, NoObject, res, NoValue)
        /\ listing' = IF res = "ok" THEN Values(remote.application) ELSE <<>>
        /\ errors' = IF res # "ok" /\ ~IsListingNotAvailable(res)
                     THEN Append(errors, FrodoError("Error reading oauth2 clients", NoValue,
                                          <<ApiError("getOAuth2Clients", NoValue, res)>>))
                     ELSE errors
    /\ pc' = "exportLoop"
    /\ UNCHANGED <<remote, op, arg, options, importData, importData0, exportData, scripts,
                   idx, sub, subErrors, response, imported, outcome>>

\* client._provider = provider; exportData.application[client._id] = client
exportOAuth2ClientBegin ==
    /\ pc = "exportLoop"
    /\ op \in ClientExportOps
    /\ idx <= Len(listing)
    /\ LET client == [exported EXCEPT !._provider = response]
       IN /\ listing' = [listing EXCEPT ![idx] = client]
          /\ exportData' = [exportData EXCEPT !.application = Put(@, client._id, client)]
    /\ pc' = IF options.deps THEN "exportOAuth2ClientDependencies" ELSE "exportLoop"
    /\ idx' = IF options.deps THEN idx ELSE idx + 1
    /\ sub' = 1
    /\ UNCHANGED <<remote, log, failures, op, arg, options, importData, importData0,
                   scripts, errors, subErrors, response, imported, outcome>>

\* mutant: a script is read whether the bundle holds it or not
IsExportedScriptReferenceAlways(entry, bundle) ==
    endsWith(entry.k, Script) /\ entry.v # Empty

\* if (key.endsWith('Script')) ... if (scriptId !== '[Empty]' && !exportData.script[scriptId])
IsExportedScriptReference(entry, bundle) ==
    endsWith(entry.k, Script) /\ entry.v # Empty /\ ~Has(bundle.script, entry.v)

\* mutant: a script read that is not available is an error like any other
IsNotAvailableNever(res) == FALSE
\* httpStatus === 403 && httpMessage === 'This operation is not available ...'
IsNotAvailable(res) == res = "notAvailable"

\* exportOAuth2ClientDependencies: one key of overrideOAuth2ClientConfig; a
\* failure of readScript other than "notAvailable" is thrown into the catch
\* of the caller, past the keys that remain
exportOAuth2ClientDependenciesKey ==
    /\ pc = "exportOAuth2ClientDependencies"
    /\ sub <= Len(OverrideEntries(exported))
    /\ LET entry == OverrideEntries(exported)[sub]
           scriptId == entry.v
       IN IF IsExportedScriptReference(entry, exportData)
          THEN \E res \in ReadOutcomes(Has(remote.script, scriptId)) :
                /\ Record("readScript", scriptId, NoObject, res, exported._id)
                /\ exportData' =
                     IF res = "ok"
                     THEN [exportData EXCEPT
                             !.script = AddScripts(@, <<Get(remote.script, scriptId)>>,
                                                   options)]
                     ELSE exportData
                /\ IF res = "ok" \/ IsNotAvailable(res)
                   THEN /\ sub' = sub + 1
                        /\ UNCHANGED <<pc, idx, errors>>
                   ELSE /\ errors' = Append(errors,
                               FrodoError("Error retrieving script referenced by key in client",
                                          scriptId,
                                          <<ApiError("readScript", scriptId, res)>>))
                        /\ pc' = "exportLoop"
                        /\ idx' = idx + 1
                        /\ sub' = sub
          ELSE /\ sub' = sub + 1
               /\ UNCHANGED <<log, failures, exportData, pc, idx, errors>>
    /\ UNCHANGED <<remote, op, arg, options, importData, importData0, listing, scripts,
                   subErrors, response, imported, outcome>>

exportOAuth2ClientDependenciesEnd ==
    /\ pc = "exportOAuth2ClientDependencies"
    /\ sub > Len(OverrideEntries(exported))
    /\ pc' = "exportLoop"
    /\ idx' = idx + 1
    /\ UNCHANGED <<remote, log, failures, op, arg, options, importData, importData0,
                   exportData, listing, scripts, sub, errors, subErrors, response, imported,
                   outcome>>

\* the tenant an export reads: policies or clients in their listing order,
\* and every script, resource type and policy set they reference
InitExport ==
    /\ InitIdle
    /\ importData = NoObject
    /\ importData0 = NoObject
    /\ \E pids \in Arrangements(PolicyIds, MaxItems), cids \in Arrangements(ClientIds, MaxItems) :
        /\ pids = <<>> \/ cids = <<>>
        /\ remote = [policy |-> [i \in 1..Len(pids) |-> [k |-> pids[i], v |-> PolicyPool[pids[i]]]],
                     application |-> [i \in 1..Len(cids) |->
                                         [k |-> cids[i], v |-> StoredClient(cids[i])]],
                     script |-> [i \in 1..Len(ScriptOrder) |->
                                   [k |-> ScriptOrder[i], v |-> ScriptSkeleton(ScriptOrder[i])]],
                     resourcetype |-> [i \in 1..Len(ResourceTypeOrder) |->
                                   [k |-> ResourceTypeOrder[i],
                                    v |-> ResourceTypeSkeleton(ResourceTypeOrder[i])]],
                     policyset |-> [i \in 1..Len(PolicySetOrder) |->
                                   [k |-> PolicySetOrder[i],
                                    v |-> PolicySetSkeleton(PolicySetOrder[i])]],
                     provider |-> OAuth2Provider]

NextExport ==
    \/ \E id \in PolicyIds, opts \in PolicyExportOptions : exportPolicy(id, opts)
    \/ \E opts \in PolicyExportOptions : exportPolicies(opts)
    \/ \E name \in PolicySetNames, opts \in PolicyExportOptions :
            exportPoliciesByPolicySet(name, opts)
    \/ \E id \in ClientIds, opts \in OAuth2ClientExportOptions : exportOAuth2Client(id, opts)
    \/ \E opts \in OAuth2ClientExportOptions : exportOAuth2Clients(opts)
    \/ exportPolicyGet
    \/ exportPoliciesRead
    \/ exportPolicyBegin
    \/ exportPolicyPrerequisitesResourceType
    \/ exportPolicyPrerequisitesPolicySet
    \/ getScriptsRead
    \/ exportPolicyDependenciesEnd
    \/ exportOAuth2ClientRead
    \/ exportReadOAuth2Provider
    \/ exportReadOAuth2Clients
    \/ exportOAuth2ClientBegin
    \/ exportOAuth2ClientDependenciesKey
    \/ exportOAuth2ClientDependenciesEnd
    \/ ExportEnd

SpecExport == InitExport /\ [][NextExport]_vars

(***************************************************************************)
(* What the log of an export says.                                         *)
(***************************************************************************)
BatchExportOps == {"exportPolicies", "exportPoliciesByPolicySet", "exportOAuth2Clients"}

\* a failed call whose failure the code answers without an error: the
\* "notAvailable" listing of clients and the "notAvailable" read of a script
\* referenced by a client
IsSwallowed(i) ==
    /\ log[i].res = "notAvailable"
    /\ \/ log[i].call = "getOAuth2Clients"
       \/ log[i].call = "readScript" /\ op \in ClientExportOps

\* the failed calls of an export that were not swallowed, in order
RECURSIVE ExportFailedCallsUpTo(_)
ExportFailedCallsUpTo(n) ==
    IF n = 0 THEN <<>>
    ELSE IF log[n].res # "ok" /\ ~IsSwallowed(n)
    THEN Append(ExportFailedCallsUpTo(n - 1),
                [call |-> log[n].call, id |-> log[n].id, res |-> log[n].res])
    ELSE ExportFailedCallsUpTo(n - 1)
ExportFailedCalls == ExportFailedCallsUpTo(Len(log))

\* the scripts read for one owner, in order
RECURSIVE OwnedReadsUpTo(_, _)
OwnedReadsUpTo(owner, n) ==
    IF n = 0 THEN <<>>
    ELSE IF log[n].call = "readScript" /\ log[n].owner = owner
    THEN Append(OwnedReadsUpTo(owner, n - 1), log[n].id)
    ELSE OwnedReadsUpTo(owner, n - 1)
OwnedReads(owner) == OwnedReadsUpTo(owner, Len(log))

\* the reads the export makes before its loop succeeded: the listing, or the
\* one object, and for clients the provider
ListingRead ==
    /\ \E j \in LogIndices :
        /\ log[j].call \in {"getPolicies", "getOAuth2Clients", "getPolicy", "getOAuth2Client"}
        /\ log[j].res = "ok"
    /\ op \in ClientExportOps =>
        \E j \in LogIndices : log[j].call = "readOAuth2Provider" /\ log[j].res = "ok"

\* the ids the remote store lists for the export in progress
ListedIds ==
    IF ~ListingRead THEN <<>>
    ELSE IF op \in {"exportPolicies", "exportPoliciesByPolicySet"}
    THEN [n \in 1..Len(PoliciesListed(op, arg)) |-> PoliciesListed(op, arg)[n]._id]
    ELSE IF op = "exportOAuth2Clients" THEN Keys(remote.application)
    ELSE <<arg>>

\* the scripts a client references: the values other than '[Empty]' of the
\* keys of overrideOAuth2ClientConfig that end with 'Script', in key order
ClientScriptReferences(client) ==
    LET refs == SelectSeq(OverrideEntries(client),
                          LAMBDA e : endsWith(e.k, Script) /\ e.v # Empty)
    IN [n \in 1..Len(refs) |-> refs[n].v]

(***************************************************************************)
(* C8.  exportPolicies, exportPoliciesByPolicySet and exportOAuth2Clients, *)
(* when the call has ended: every item the remote store listed is in the   *)
(* bundle under its id, whatever failed for the items before it, and its   *)
(* prerequisites and scripts were read (a script of a client is in the     *)
(* bundle, or a read made for the client failed); the call returned the    *)
(* bundle if and only if no call failed with an error, and the bundle it   *)
(* returned is complete; else it threw one error that holds every failed   *)
(* call, in order, and returned nothing.  (The "notAvailable" answers that *)
(* the code swallows are not errors.)                                      *)
(***************************************************************************)
C8_CollectAllThenFailClosed ==
    (Done /\ op \in BatchExportOps) =>
        /\ ListingRead =>
            /\ idx = Len(ListedIds) + 1
            /\ \A n \in 1..Len(ListedIds) :
                LET id == ListedIds[n]
                IN IF op = "exportOAuth2Clients"
                   THEN /\ Get(exportData.application, id) = ClientPool[id]
                        /\ options.deps =>
                            \A m \in 1..Len(ClientScriptReferences(ClientPool[id])) :
                                LET scriptId == ClientScriptReferences(ClientPool[id])[m]
                                IN \/ Has(exportData.script, scriptId)
                                   \/ \E j \in LogIndices :
                                        /\ log[j].call = "readScript"
                                        /\ log[j].owner = id
                                        /\ log[j].res # "ok"
                   ELSE /\ Get(exportData.policy, id) = PolicyPool[id]
                        /\ options.deps =>
                            OwnedReads(id) = findScriptUuids(PolicyPool[id].condition)
                        /\ (options.prereqs /\ PolicyPool[id].resourceTypeUuid # NoValue) =>
                            \E j \in LogIndices :
                                /\ log[j].call = "getResourceType"
                                /\ log[j].id = PolicyPool[id].resourceTypeUuid
                                /\ log[j].owner = id
                        /\ options.prereqs =>
                            \E j \in LogIndices :
                                /\ log[j].call = "readPolicySet"
                                /\ log[j].id = PolicyPool[id].applicationName
                                /\ log[j].owner = id
        /\ outcome.kind = "return" <=> ExportFailedCalls = <<>>
        /\ outcome.kind = "return" =>
            /\ outcome.value = exportData
            /\ op = "exportOAuth2Clients" => Keys(outcome.value.application) = ListedIds
            /\ op # "exportOAuth2Clients" =>
                /\ Keys(outcome.value.policy) = ListedIds
                /\ \A n \in 1..Len(ListedIds) :
                    LET policy == PolicyPool[ListedIds[n]]
                    IN /\ options.deps =>
                            \A s \in Range(findScriptUuids(policy.condition)) :
                                Has(outcome.value.script, s)
                       /\ options.prereqs =>
                            /\ Has(outcome.value.policyset, policy.applicationName)
                            /\ policy.resourceTypeUuid # NoValue =>
                                Has(outcome.value.resourcetype, policy.resourceTypeUuid)
        /\ outcome.kind # "return" =>
            /\ outcome.kind = "throw"
            /\ Leaves(outcome.error) = ExportFailedCalls

\* exportPolicies has ended on two policies: a script of the first could not
\* be read, the scripts of the second were read after that, and the call threw
C8_Witness ==
    /\ Done /\ op = "exportPolicies"
    /\ Len(ListedIds) = 2
    /\ \E a, b \in LogIndices :
        /\ a < b
        /\ log[a].call = "readScript" /\ log[a].owner = ListedIds[1] /\ log[a].res # "ok"
        /\ log[b].call = "readScript" /\ log[b].owner = ListedIds[2] /\ log[b].res = "ok"
    /\ Has(exportData.policy, ListedIds[2])
    /\ outcome.kind = "throw"

(***************************************************************************)
(* C9 as claimed.  In an export that returns its bundle, where every script *)
(* that was read is in the bundle from the end of the owner it was read    *)
(* for, no script is read twice.                                           *)
(***************************************************************************)
C9_ScriptReadOnce ==
    (Done /\ op \in PolicyExportOps \cup ClientExportOps /\ outcome.kind = "return") =>
        \A i, j \in LogIndices :
            (/\ i < j
             /\ log[i].call = "readScript"
             /\ log[j].call = "readScript"
             /\ log[i].owner # log[j].owner
             /\ log[i].res = "ok")
            => log[i].id # log[j].id

(***************************************************************************)
(* C9 as amended.  An export of OAuth2 clients reads no script that the    *)
(* bundle holds: a script whose read succeeded is in the bundle and is not *)
(* read again for any client, so that a script two clients reference is    *)
(* read once when its first read succeeds; a script whose read failed is   *)
(* read again for the next client that references it.  An export of        *)
(* policies reads, for each policy, every script the policy references,    *)
(* whether the bundle holds it or not: a script two policies reference is  *)
(* read once for each, and the bundle holds it once.                       *)
(***************************************************************************)
C9_PresenceCheckedForClientsOnly ==
    /\ op \in ClientExportOps =>
        \A j \in LogIndices :
            log[j].call = "readScript" =>
                /\ \A i \in 1..(j - 1) :
                    (log[i].call = "readScript" /\ log[i].id = log[j].id) => log[i].res # "ok"
                /\ log[j].res = "ok" => Has(exportData.script, log[j].id)
    /\ (Done /\ op \in PolicyExportOps /\ options.deps) =>
        /\ \A n \in 1..Len(ListedIds) :
            OwnedReads(ListedIds[n]) = findScriptUuids(PolicyPool[ListedIds[n]].condition)
        /\ Cardinality(KeySet(exportData.script)) = Len(exportData.script)

\* exportOAuth2Clients has ended on two clients that reference the same
\* script, which was read for the first and not for the second
C9_Witness ==
    /\ Done /\ op = "exportOAuth2Clients" /\ options.deps
    /\ Len(ListedIds) = 2
    /\ \E s \in ScriptIds :
        /\ s \in Range(ClientScriptReferences(ClientPool[ListedIds[1]]))
        /\ s \in Range(ClientScriptReferences(ClientPool[ListedIds[2]]))
        /\ s \in Range(OwnedReads(ListedIds[1]))
        /\ s \notin Range(OwnedReads(ListedIds[2]))
        /\ Has(exportData.script, s)
    /\ outcome.kind = "return"

(***************************************************************************)
(* C10 as claimed.  When an export with deps has ended, every script an    *)
(* exported owner references was read for it or is in the bundle, and      *)
(* every read of a script that failed is in the error the call threw.      *)
(***************************************************************************)
C10_EveryScriptAttempted ==
    (Done /\ op \in PolicyExportOps \cup ClientExportOps /\ options.deps) =>
        /\ \A n \in 1..Len(ListedIds) :
            LET id == ListedIds[n]
                refs == IF op \in ClientExportOps
                        THEN ClientScriptReferences(ClientPool[id])
                        ELSE findScriptUuids(PolicyPool[id].condition)
            IN \A m \in 1..Len(refs) :
                Has(exportData.script, refs[m]) \/ refs[m] \in Range(OwnedReads(id))
        /\ \A j \in LogIndices :
            (log[j].call = "readScript" /\ log[j].res # "ok") =>
                /\ outcome.kind = "throw"
                /\ \E k \in 1..Len(Leaves(outcome.error)) :
                    Leaves(outcome.error)[k] =
                        [call |-> "readScript", id |-> log[j].id, res |-> log[j].res]

\* the reads of scripts that failed, in order: all of them, and those that
\* an export of clients does not swallow
RECURSIVE FailedReadsUpTo(_, _)
FailedReadsUpTo(n, all) ==
    IF n = 0 THEN <<>>
    ELSE IF log[n].call = "readScript" /\ log[n].res # "ok" /\ (all \/ ~IsSwallowed(n))
    THEN Append(FailedReadsUpTo(n - 1, all),
                [call |-> log[n].call, id |-> log[n].id, res |-> log[n].res])
    ELSE FailedReadsUpTo(n - 1, all)

(***************************************************************************)
(* C10 as amended.  getScripts reads every script a policy references,     *)
(* whatever reads failed before, and every failed read is in the error the *)
(* export throws.  exportOAuth2ClientDependencies stops at the first read  *)
(* that fails with an error: that read is the last call made for the       *)
(* client, the scripts of the keys after it are not read for it, and the   *)
(* error the export throws holds that one failure for the client; a read   *)
(* that fails with "notAvailable" is skipped without an error and the keys *)
(* after it are read.                                                      *)
(***************************************************************************)
C10_PolicyReadsAllClientStopsAtFirst ==
    (Done /\ op \in PolicyExportOps \cup ClientExportOps /\ options.deps) =>
        /\ op \in PolicyExportOps =>
            /\ \A n \in 1..Len(ListedIds) :
                OwnedReads(ListedIds[n]) = findScriptUuids(PolicyPool[ListedIds[n]].condition)
            /\ FailedReadsUpTo(Len(log), TRUE) # <<>> =>
                /\ outcome.kind = "throw"
                /\ SelectSeq(Leaves(outcome.error), LAMBDA e : e.call = "readScript")
                     = FailedReadsUpTo(Len(log), TRUE)
        /\ op \in ClientExportOps =>
            /\ \A j \in LogIndices :
                (log[j].call = "readScript" /\ log[j].res = "fail") =>
                    \A k \in (j + 1)..Len(log) : log[k].owner # log[j].owner
            /\ \A n \in 1..Len(ListedIds) :
                LET id == ListedIds[n]
                    refs == ClientScriptReferences(ClientPool[id])
                IN \A m \in 1..Len(refs) :
                    \/ Has(exportData.script, refs[m])
                    \/ refs[m] \in Range(OwnedReads(id))
                    \/ \E j \in LogIndices :
                        /\ log[j].call = "readScript" /\ log[j].owner = id
                        /\ log[j].res = "fail"
                        /\ log[j].id \in {refs[k] : k \in 1..(m - 1)}
            /\ FailedReadsUpTo(Len(log), FALSE) # <<>> =>
                /\ outcome.kind = "throw"
                /\ SelectSeq(Leaves(outcome.error), LAMBDA e : e.call = "readScript")
                     = FailedReadsUpTo(Len(log), FALSE)

\* exportPolicy has ended on a policy that references two scripts: the read of
\* the first failed, the second was read after it, and the error thrown holds
\* the failure
C10_Witness ==
    /\ Done /\ op = "exportPolicy" /\ options.deps
    /\ Len(ListedIds) = 1
    /\ Len(OwnedReads(arg)) = 2
    /\ \E a, b \in LogIndices :
        /\ a < b
        /\ log[a].call = "readScript" /\ log[a].owner = arg /\ log[a].res # "ok"
        /\ log[b].call = "readScript" /\ log[b].owner = arg /\ log[b].res = "ok"
    /\ outcome.kind = "throw"
    /\ Len(FailedReadsUpTo(Len(log), TRUE)) = 1

(***************************************************************************)
(* C11.  Policy import with prereqs: whatever the write of the resource     *)
(* type did, what follows it for the same policy (at once, or as the step  *)
(* the import is about to take) is the write of the policy set when the    *)
(* bundle holds it, and else the write of the policy;                      *)
(* whatever the write of the policy set did, the write of the policy       *)
(* follows it; and a prerequisite write that failed is in the error the    *)
(* import throws.                                                          *)
(***************************************************************************)
C11_PrerequisiteFailureDoesNotBlock ==
    op \in PolicyImportOps =>
        /\ \A j \in LogIndices :
            log[j].call = "updateResourceType" =>
                IF j = Len(log) THEN pc \in {"policyset", "updatePolicy"}
                ELSE /\ log[j + 1].owner = log[j].owner
                     /\ log[j + 1].call =
                          IF Has(importData.policyset,
                                 Get(importData.policy, log[j].owner).applicationName)
                          THEN "updatePolicySet" ELSE "putPolicy"
        /\ \A j \in LogIndices :
            log[j].call = "updatePolicySet" =>
                IF j = Len(log) THEN pc = "updatePolicy"
                ELSE log[j + 1].owner = log[j].owner /\ log[j + 1].call = "putPolicy"
        /\ Done =>
            \A j \in LogIndices :
                (log[j].call \in {"updateResourceType", "updatePolicySet"} /\ log[j].res # "ok") =>
                    /\ outcome.kind = "throw"
                    /\ \E k \in 1..Len(Leaves(outcome.error)) :
                        Leaves(outcome.error)[k] =
                            [call |-> log[j].call, id |-> log[j].id, res |-> log[j].res]

\* an import has ended in which the writes of the resource type and of the
\* policy set of a policy both failed and the policy was written after them
C11_Witness ==
    /\ Done /\ op \in PolicyImportOps
    /\ \E j \in LogIndices :
        /\ j + 2 <= Len(log)
        /\ log[j].call = "updateResourceType" /\ log[j].res # "ok"
        /\ log[j + 1].call = "updatePolicySet" /\ log[j + 1].res # "ok"
        /\ log[j + 2].call = "putPolicy" /\ log[j + 2].res = "ok"
        /\ log[j + 2].owner = log[j].owner
        /\ Get(remote.policy, log[j + 2].id) = log[j + 2].data

(***************************************************************************)
(* C12.  Import with deps: every script write is the write of a script the *)
(* bundle holds, made with the data the bundle holds for it; a reference   *)
(* to a script the bundle does not hold leads to no call and to no error.  *)
(***************************************************************************)
C12_AbsentScriptSkipped ==
    op \in PolicyImportOps \cup ClientImportOps =>
        /\ \A j \in LogIndices :
            log[j].call = "updateScript" =>
                /\ Has(importData.script, log[j].id)
                /\ log[j].data = Get(importData.script, log[j].id)
        /\ Done =>
            \A k \in 1..Len(LeavesOfSeq(errors)) :
                LeavesOfSeq(errors)[k].call = "updateScript" =>
                    Has(importData.script, LeavesOfSeq(errors)[k].id)

(***************************************************************************)
(* C13.  exportOAuth2Clients whose listing of the clients was answered     *)
(* "notAvailable" returns a bundle with no application and no script, and  *)
(* throws nothing.                                                         *)
(***************************************************************************)
C13_ListingNotAvailableIsEmpty ==
    (/\ Done /\ op = "exportOAuth2Clients"
     /\ \E j \in LogIndices : log[j].call = "getOAuth2Clients" /\ log[j].res = "notAvailable")
    => /\ outcome.kind = "return"
       /\ outcome.value.application = <<>>
       /\ outcome.value.script = <<>>
       /\ \A j \in LogIndices : log[j].call \in {"readOAuth2Provider", "getOAuth2Clients"}

\* exportOAuth2Clients has ended on a tenant that holds clients and answered
\* the listing "notAvailable"
C13_Witness ==
    /\ Done /\ op = "exportOAuth2Clients"
    /\ remote.application # <<>>
    /\ log[Len(log)].call = "getOAuth2Clients" /\ log[Len(log)].res = "notAvailable"
    /\ outcome = Returned(createOAuth2ClientExportTemplate)

(***************************************************************************)
(* A session on OAuth2 clients: the caller makes one call after the other  *)
(* against the same tenant, exports and imports in any order.  What it     *)
(* imports is a bundle it wrote itself, the bundle the export before       *)
(* returned, or the bundle an import before has left.                      *)
(***************************************************************************)
MaxCalls == 2

\* bundles written by hand: they hold a script under the key '[Empty]'
SessionBundles ==
    {[script |-> <<[k |-> Empty, v |-> ScriptSkeleton(Empty)]>>
                 \o MapOf(ScriptOrder, ss, ScriptSkeleton),
      application |-> <<[k |-> "c1", v |-> ClientPool["c1"]]>>] : ss \in {{}, {"s1"}}}

\* the calls that have returned or thrown so far
Returns == {j \in 1..Len(log) : log[j].call = "return"}

\* the bundles the caller can pass to its next call
NextBundles ==
    {importData} \cup (IF op \in ClientExportOps /\ outcome.kind = "return"
                       THEN {outcome.value} ELSE {})

\* a call has ended and the caller goes on to its next call; the log keeps
\* what the call was and what the remote store held when it ended
SessionReturn ==
    /\ pc = "done"
    /\ Cardinality(Returns) + 1 < MaxCalls
    /\ \E bundle \in NextBundles :
        /\ importData' = bundle
        /\ importData0' = bundle
    /\ log' = Append(log, [call |-> "return", id |-> op, data |-> remote, res |-> "ok",
                           owner |-> NoValue])
    /\ pc' = "idle"
    /\ outcome' = Running
    /\ UNCHANGED <<remote, failures, op, arg, options, exportData, listing, scripts, idx,
                   sub, errors, subErrors, response, imported>>

InitSession ==
    /\ InitIdle
    /\ importData \in SessionBundles
    /\ importData0 = importData
    /\ \E cids \in Arrangements(ClientIds, MaxItems) :
        remote = [EmptyRemote EXCEPT
                    !.application = [i \in 1..Len(cids) |->
                                        [k |-> cids[i], v |-> StoredClient(cids[i])]],
                    !.script = [i \in 1..Len(ScriptOrder) |->
                                   [k |-> ScriptOrder[i], v |-> ScriptSkeleton(ScriptOrder[i])]]]

NextSession ==
    \/ \E id \in ClientIds, opts \in OAuth2ClientExportOptions : exportOAuth2Client(id, opts)
    \/ \E opts \in OAuth2ClientExportOptions : exportOAuth2Clients(opts)
    \/ exportOAuth2ClientRead
    \/ exportReadOAuth2Provider
    \/ exportReadOAuth2Clients
    \/ exportOAuth2ClientBegin
    \/ exportOAuth2ClientDependenciesKey
    \/ exportOAuth2ClientDependenciesEnd
    \/ ExportEnd
    \/ \E clientId \in ClientIds, opts \in OAuth2ClientImportOptions :
            importOAuth2Client(clientId, opts)
    \/ \E opts \in OAuth2ClientImportOptions : importFirstOAuth2Client(opts)
    \/ \E opts \in OAuth2ClientImportOptions : importOAuth2Clients(opts)
    \/ ClientSkip
    \/ ClientBegin
    \/ importOAuth2ClientDependenciesKey
    \/ importOAuth2ClientDependenciesEnd
    \/ updateOAuth2ClientPut
    \/ updateOAuth2ClientRetry
    \/ ClientImportEnd
    \/ SessionReturn

SpecSession == InitSession /\ [][NextSession]_vars

(***************************************************************************)
(* C14.  In a session of exports and imports of OAuth2 clients, no script  *)
(* is ever read or written under the id '[Empty]', whatever the bundles    *)
(* and the remote store hold.                                              *)
(***************************************************************************)
C14_SentinelIsNoDependency ==
    \A j \in LogIndices :
        log[j].call \in {"readScript", "updateScript"} => log[j].id # Empty

\* a client with the sentinel under a key that ends in Script was exported
\* with its scripts, then a client with the sentinel was imported with its
\* scripts from a bundle that holds a script under '[Empty]'
C14_Witness ==
    /\ Done /\ op \in ClientImportOps /\ options.deps
    /\ Has(importData.script, Empty)
    /\ \E a, r, b \in LogIndices :
        /\ a < r /\ r < b
        /\ log[a].call = "readScript" /\ log[a].owner = "c1" /\ log[a].res = "ok"
        /\ log[r].call = "return" /\ log[r].id \in ClientExportOps
        /\ log[b].call = "putOAuth2Client" /\ log[b].res = "ok"
        /\ \E n \in 1..Len(OverrideEntries(log[b].data)) :
            /\ endsWith(OverrideEntries(log[b].data)[n].k, Script)
            /\ OverrideEntries(log[b].data)[n].v = Empty

(***************************************************************************)
(* findScriptUuids on its own: the initial state holds a condition without *)
(* children, the steps nest it in further conditions, the call walks it.   *)
(* arg is the condition, idx the number of levels, response the result.    *)
(***************************************************************************)
MaxDepth == 3

Combinators == {"AND", "OR", "NOT"}
\* a condition of another type that carries a scriptId all the same
OtherLeaf == OtherCondition("SimpleTime", "s2", NoObject, <<>>)
ConditionLeaves ==
    {NoObject, EmptyCondition, OtherLeaf}
        \cup {ScriptCondition(s) : s \in ScriptIds}
        \cup {Combinator(t, NoObject, <<>>) : t \in Combinators}
SiblingLeaves == {NoObject, OtherLeaf} \cup {ScriptCondition(s) : s \in ScriptIds}

InitConditions ==
    /\ remote = EmptyRemote
    /\ log = <<>>
    /\ failures = 0
    /\ op = "findScriptUuids"
    /\ arg \in ConditionLeaves
    /\ options = [deps |-> FALSE, prereqs |-> FALSE, policySetName |-> NoValue]
    /\ importData = NoObject
    /\ importData0 = NoObject
    /\ exportData = NoObject
    /\ listing = <<>>
    /\ scripts = <<>>
    /\ pc = "idle"
    /\ idx = 1
    /\ sub = 1
    /\ errors = <<>>
    /\ subErrors = <<>>
    /\ response = NoObject
    /\ imported = <<>>
    /\ outcome = Running

Nested(condition) ==
    /\ op = "findScriptUuids"
    /\ pc = "idle"
    /\ idx <= MaxDepth
    /\ arg # NoObject
    /\ arg' = condition
    /\ idx' = idx + 1
    /\ UNCHANGED <<remote, log, failures, op, options, importData, importData0, exportData,
                   listing, scripts, pc, sub, errors, subErrors, response, imported, outcome>>

\* the condition becomes the single condition of a combinator
NestInCondition == \E t \in Combinators : Nested(Combinator(t, arg, <<>>))

\* the condition becomes one of the conditions of a combinator
NestInConditions ==
    \E t \in {"AND", "OR"}, other \in SiblingLeaves :
        \/ Nested(Combinator(t, NoObject, <<arg, other>>))
        \/ Nested(Combinator(t, NoObject, <<other, arg>>))

\* a combinator with both, a single condition and an array of conditions
NestInBoth ==
    \E t \in Combinators, s \in ScriptIds : Nested(Combinator(t, ScriptCondition(s), <<arg>>))

\* the condition becomes a field of a condition that is no combinator
NestInOther ==
    \/ Nested(OtherCondition("SimpleTime", NoValue, arg, <<>>))
    \/ Nested(OtherCondition("Script", "s1", NoObject, <<arg>>))

findScriptUuidsCall ==
    /\ op = "findScriptUuids"
    /\ pc = "idle"
    /\ response' = findScriptUuids(arg)
    /\ outcome' = Returned(response')
    /\ pc' = "done"
    /\ UNCHANGED <<remote, log, failures, op, arg, options, importData, importData0,
                   exportData, listing, scripts, idx, sub, errors, subErrors, imported>>

NextConditions ==
    \/ NestInCondition
    \/ NestInConditions
    \/ NestInBoth
    \/ NestInOther
    \/ findScriptUuidsCall

SpecConditions == InitConditions /\ [][NextConditions]_vars

\* the scriptId values of the Script conditions reachable through combinators
RECURSIVE ScriptLeafIds(_)
ScriptLeafIds(c) ==
    IF c = NoObject THEN {}
    ELSE IF c.type = "Script" THEN {c.scriptId}
    ELSE IF c.type \in Combinators
         THEN ScriptLeafIds(c.condition)
                  \cup UNION {ScriptLeafIds(c.conditions[i]) : i \in 1..Len(c.conditions)}
         ELSE {}

\* C15: findScriptUuids returns exactly the distinct scriptId values of the
\* Script conditions reachable through AND/OR/NOT combinators, by condition
\* and by conditions, at any depth: none missing, none extra, none twice.
C15_ExactlyTheScriptLeaves ==
    (op = "findScriptUuids" /\ pc = "done") =>
        /\ Range(response) = ScriptLeafIds(arg)
        /\ \A i, j \in 1..Len(response) : response[i] = response[j] => i = j

\* three levels of mixed combinators, s1 twice and s2 once
C15_Witness ==
    /\ op = "findScriptUuids"
    /\ pc = "done"
    /\ arg = Combinator("AND", NoObject,
                 <<ScriptCondition("s1"),
                   Combinator("NOT",
                       Combinator("OR", ScriptCondition("s1"), <<ScriptCondition("s2")>>),
                       <<>>)>>)
    /\ Len(response) = 2
    /\ Range(response) = {"s1", "s2"}

\* C16: for a null or missing condition, for {} and for a combinator with
\* neither condition nor conditions the call returns and the result is empty.
C16_NothingFromNothing ==
    (/\ op = "findScriptUuids"
     /\ arg \in {NoObject, EmptyCondition} \cup {Combinator(t, NoObject, <<>>) : t \in Combinators})
        => /\ pc = "idle" => ENABLED findScriptUuidsCall
           /\ pc = "done" => outcome = Returned(<<>>) /\ response = <<>>

C16_Witness ==
    /\ op = "findScriptUuids"
    /\ pc = "done"
    /\ arg = EmptyCondition
    /\ response = <<>>

(***************************************************************************)
(* updateOAuth2Client: the repair of a rejected write.                     *)
(***************************************************************************)
ClientPuts(id) == {j \in LogIndices : log[j].call = "putOAuth2Client" /\ log[j].owner = id}

\* the second put is the last entry of the log and it failed
RetryJustFailed == log # <<>> /\ IsRetry(Len(log)) /\ log[Len(log)].res # "ok"

\* the first put of the update whose second put is entry j
FirstPut(j) == log[j - 1]

UpdateError(id, res) ==
    FrodoError("Error updating oauth2 client", id, <<ApiError("putOAuth2Client", id, res)>>)

\* a put rejected as invalid is followed by one more put of the same client,
\* with nothing added to the nested objects; no other put is followed by one;
\* an update makes two puts at most
RetriedExactlyOnce ==
    /\ \A j \in LogIndices :
        (log[j].call = "putOAuth2Client" /\ ~IsRetry(j)) =>
            IF log[j].res = "invalid"
            THEN IF j = Len(log) THEN pc = "updateOAuth2ClientRetry"
                 ELSE /\ IsRetry(j + 1)
                      /\ log[j + 1].id = log[j].id
                      /\ Range(OverrideEntries(log[j + 1].data)) \subseteq Range(OverrideEntries(log[j].data))
            ELSE /\ j < Len(log) => ~(log[j + 1].call = "putOAuth2Client" /\ log[j + 1].owner = log[j].owner)
                 /\ j = Len(log) => pc # "updateOAuth2ClientRetry"
    /\ \A j \in LogIndices :
        IsRetry(j) => (j < Len(log) => ~(log[j + 1].call = "putOAuth2Client" /\ log[j + 1].owner = log[j].owner))
    /\ \A id \in ClientIds : Cardinality(ClientPuts(id)) <= 2

\* C18 as stated: the put rejected as invalid is retried exactly once, no
\* other failure is retried, and when the retry fails too the error thrown
\* wraps the failure of the first put.
C18_RetryOnceSurfaceOriginal ==
    op \in ClientImportOps =>
        /\ RetriedExactlyOnce
        /\ RetryJustFailed =>
              errors # <<>> /\ errors[Len(errors)] = UpdateError(log[Len(log)].id, FirstPut(Len(log)).res)

\* C18, amended: the put rejected as invalid is retried exactly once, no
\* other failure is retried, and when the retry fails too the error thrown
\* wraps the failure of the retry, not that of the first put.
C18_RetryOnceSurfaceRetryFailure ==
    op \in ClientImportOps =>
        /\ RetriedExactlyOnce
        /\ RetryJustFailed =>
              errors # <<>> /\ errors[Len(errors)] = UpdateError(log[Len(log)].id, log[Len(log)].res)

\* rejected as invalid, repaired, and the second put failed otherwise
C18_Witness ==
    /\ op \in ClientImportOps
    /\ RetryJustFailed
    /\ FirstPut(Len(log)).res = "invalid"
    /\ log[Len(log)].res = "fail"
    /\ log[Len(log)].data # FirstPut(Len(log)).data

(***************************************************************************)
(* createPolicy, updatePolicy, createOAuth2Client and updateOAuth2Client   *)
(* called on their own.  arg is the id, importData the object passed in,   *)
(* importData0 the object as it was passed; the first entry of the log     *)
(* holds the remote store as the call found it.                            *)
(***************************************************************************)
CreateOps == {"createPolicy", "createOAuth2Client"}

\* what the tenant holds differs from what the caller passes
StoredPolicy(id) == [PolicyPool[id] EXCEPT !._rev = "0"]

InitCreate ==
    /\ InitIdle
    /\ importData = NoObject
    /\ importData0 = NoObject
    /\ \E pids \in Arrangements(PolicyIds, MaxItems), cids \in Arrangements(ClientIds, MaxItems) :
        remote = [EmptyRemote EXCEPT
                    !.policy = [i \in 1..Len(pids) |-> [k |-> pids[i], v |-> StoredPolicy(pids[i])]],
                    !.application = [i \in 1..Len(cids) |->
                                        [k |-> cids[i], v |-> StoredClient(cids[i])]]]

StartCall(name, id, data, first) ==
    /\ pc = "idle"
    /\ op' = name
    /\ arg' = id
    /\ importData' = data
    /\ importData0' = data
    /\ log' = Append(log, [call |-> "call", id |-> name, data |-> remote, res |-> "ok",
                           owner |-> NoValue])
    /\ pc' = first
    /\ UNCHANGED <<remote, failures, options, exportData, listing, scripts, idx, sub, errors,
                   subErrors, response, imported, outcome>>

createPolicy(policyId, data) == StartCall("createPolicy", policyId, data, "getPolicy")
updatePolicy(policyId, data) == StartCall("updatePolicy", policyId, data, "putPolicy")
createOAuth2Client(clientId, data) ==
    StartCall("createOAuth2Client", clientId, data, "getOAuth2Client")
updateOAuth2Client(clientId, data) ==
    StartCall("updateOAuth2Client", clientId, data, "putOAuth2Client")

\* mutant: the write is made whatever the read returned
PcAfterProbeAlways(res, put) == put
\* mutant: only the read of an object the tenant does not hold leads to the write
PcAfterProbeNotFoundOnly(res, put) ==
    IF res = "ok" \/ Has(IF op = "createPolicy" THEN remote.policy ELSE remote.application, arg)
    THEN "exists" ELSE put
\* the read resolved: fall out of the try to the throw; it rejected: the catch
PcAfterProbe(res, put) == IF res = "ok" THEN "exists" ELSE put

\* the read of an object the tenant does not hold is answered, not failed
Probe(call, collection, put) ==
    \E res \in ReadOutcomes(Has(collection, arg)) :
        /\ log' = Append(log, [call |-> call, id |-> arg, data |-> NoObject, res |-> res,
                               owner |-> arg])
        /\ failures' = IF Has(collection, arg) /\ res # "ok" THEN failures + 1 ELSE failures
        /\ pc' = PcAfterProbe(res, put)
        /\ UNCHANGED <<remote, op, arg, options, importData, importData0, exportData, listing,
                       scripts, idx, sub, errors, subErrors, response, imported, outcome>>

createPolicyGet == pc = "getPolicy" /\ Probe("getPolicy", remote.policy, "putPolicy")

createOAuth2ClientRead ==
    pc = "getOAuth2Client" /\ Probe("getOAuth2Client", remote.application, "putOAuth2Client")

AlreadyExists(id) == FrodoError("already exists", id, <<>>)

createAlreadyExists ==
    /\ pc = "exists"
    /\ outcome' = Thrown(AlreadyExists(arg))
    /\ pc' = "done"
    /\ UNCHANGED <<remote, log, failures, op, arg, options, importData, importData0, exportData,
                   listing, scripts, idx, sub, errors, subErrors, response, imported>>

\* mutant: a policy rejected as invalid is put again
PcAfterPutPolicyRetry(res) == IF res = "invalid" THEN "putPolicy" ELSE "done"
\* return response, or throw new FrodoError(..., error): the call is over
PcAfterPutPolicy(res) == "done"

\* createPolicy puts the policy itself, updatePolicy does nothing else; the
\* put can be rejected as the put of a client can
putPolicyStep ==
    /\ pc = "putPolicy"
    /\ \E res \in {out.res : out \in PutOutcomes} :
        /\ Record("putPolicy", arg, importData, res, arg)
        /\ remote' = IF res = "ok" THEN [remote EXCEPT !.policy = Put(@, arg, importData)]
                     ELSE remote
        /\ outcome' = IF res = "ok" THEN Returned(importData)
                      ELSE Thrown(FrodoError(IF op = "createPolicy" THEN "Error creating policy"
                                             ELSE "Error updating policy",
                                             arg, <<ApiError("putPolicy", arg, res)>>))
        /\ pc' = PcAfterPutPolicy(res)
    /\ UNCHANGED <<op, arg, options, importData, importData0, exportData, listing, scripts, idx,
                   sub, errors, subErrors, response, imported>>

\* what the caller of createOAuth2Client or updateOAuth2Client catches
ClientCallError(name, id, error) ==
    LET updateError == FrodoError("Error updating oauth2 client", id, <<error>>)
    IN IF name = "createOAuth2Client"
       THEN FrodoError("Error creating oauth2 client", id, <<updateError>>)
       ELSE updateError

putOAuth2ClientStep ==
    /\ pc = "putOAuth2Client"
    /\ \E out \in PutOutcomes :
        /\ Record("putOAuth2Client", arg, importData, out.res, arg)
        /\ remote' = IF out.res = "ok" THEN [remote EXCEPT !.application = Put(@, arg, importData)]
                     ELSE remote
        /\ importData' = IF out.res = "invalid"
                         THEN RemoveInvalidAttributes(importData, out.validAttributes)
                         ELSE importData
        /\ outcome' = IF out.res = "ok" THEN Returned(importData)
                      ELSE IF out.res = "fail"
                      THEN Thrown(ClientCallError(op, arg, ApiError("putOAuth2Client", arg, out.res)))
                      ELSE outcome
        /\ pc' = IF out.res = "invalid" THEN "putOAuth2ClientRetry" ELSE "done"
    /\ UNCHANGED <<op, arg, options, importData0, exportData, listing, scripts, idx, sub, errors,
                   subErrors, response, imported>>

putOAuth2ClientRetryStep ==
    /\ pc = "putOAuth2ClientRetry"
    /\ \E out \in PutOutcomes :
        /\ Record("putOAuth2Client", arg, importData, out.res, arg)
        /\ remote' = IF out.res = "ok" THEN [remote EXCEPT !.application = Put(@, arg, importData)]
                     ELSE remote
        /\ outcome' = IF out.res = "ok" THEN Returned(importData)
                      ELSE Thrown(ClientCallError(op, arg,
                                     RetryError(ApiError("putOAuth2Client", arg, "invalid"),
                                                ApiError("putOAuth2Client", arg, out.res))))
    /\ pc' = "done"
    /\ UNCHANGED <<op, arg, options, importData, importData0, exportData, listing, scripts, idx,
                   sub, errors, subErrors, response, imported>>

NextCreate ==
    \/ \E policyId \in PolicyIds, from \in PolicyIds : createPolicy(policyId, PolicyPool[from])
    \/ \E policyId \in PolicyIds, from \in PolicyIds : updatePolicy(policyId, PolicyPool[from])
    \/ \E clientId \in ClientIds, from \in ClientIds : createOAuth2Client(clientId, ClientPool[from])
    \/ \E clientId \in ClientIds, from \in ClientIds : updateOAuth2Client(clientId, ClientPool[from])
    \/ createPolicyGet
    \/ createOAuth2ClientRead
    \/ createAlreadyExists
    \/ putPolicyStep
    \/ putOAuth2ClientStep
    \/ putOAuth2ClientRetryStep

SpecCreate == InitCreate /\ [][NextCreate]_vars

\* the remote store as the call found it, and the collection the call is about
RemoteAtCall == log[1].data
CallCollection(r) == IF op \in {"createPolicy", "updatePolicy"} THEN r.policy ELSE r.application
Found == Len(log) >= 2 /\ log[2].res = "ok"
NotFound == Len(log) >= 2 /\ log[2].res # "ok"
Puts == {j \in LogIndices : log[j].call \in {"putPolicy", "putOAuth2Client"}}

C17_WitnessCreated ==
    /\ op \in CreateOps
    /\ pc = "done"
    /\ ~Has(CallCollection(RemoteAtCall), arg)
    /\ Get(CallCollection(remote), arg) = importData0
    /\ outcome = Returned(importData0)

(***************************************************************************)
(* The server-only fields of what an import writes.                        *)
(***************************************************************************)
\* C20: no policy an import puts carries _rev, and no OAuth2 client an
\* import puts carries _rev or _provider, whichever of the three import
\* functions made the call.
C20_ServerOnlyFieldsStripped ==
    (op \in PolicyImportOps \cup ClientImportOps) =>
        \A j \in LogIndices :
            /\ log[j].call = "putPolicy" => log[j].data._rev = NoValue
            /\ log[j].call = "putOAuth2Client" =>
                   log[j].data._rev = NoValue /\ log[j].data._provider = NoObject

\* a client the bundle holds with _rev and _provider, put
C20_Witness ==
    /\ op \in ClientImportOps
    /\ \E j \in LogIndices :
        /\ log[j].call = "putOAuth2Client"
        /\ log[j].res = "ok"
        /\ Get(importData0.application, log[j].id)._rev # NoValue
        /\ Get(importData0.application, log[j].id)._provider # NoObject
        /\ Get(remote.application, log[j].id)._rev = NoValue
        /\ Get(remote.application, log[j].id)._provider = NoObject

\* a policy the bundle holds with _rev, put
C20_WitnessPolicy ==
    /\ op \in PolicyImportOps
    /\ \E j \in LogIndices :
        /\ log[j].call = "putPolicy"
        /\ log[j].res = "ok"
        /\ Get(importData0.policy, log[j].id)._rev # NoValue
        /\ Get(remote.policy, log[j].id)._rev = NoValue

(***************************************************************************)
(* The same import made a second time: the call that returned is made      *)
(* again with the same arguments, the bundle being the object the first    *)
(* call was given and has stripped.  The log keeps the remote store as the *)
(* first call left it.                                                     *)
(***************************************************************************)
ImportAgain ==
    /\ pc = "done"
    /\ op \in PolicyImportOps \cup ClientImportOps
    /\ failures = 0
    /\ Cardinality(Returns) + 1 < MaxCalls
    /\ log' = Append(log, [call |-> "return", id |-> op, data |-> remote, res |-> "ok",
                           owner |-> NoValue])
    /\ pc' = "loop"
    /\ idx' = 1
    /\ sub' = 1
    /\ errors' = <<>>
    /\ subErrors' = <<>>
    /\ response' = IF op \in {"importPolicies", "importOAuth2Clients"} THEN <<>> ELSE NoObject
    /\ imported' = <<>>
    /\ outcome' = Running
    /\ UNCHANGED <<remote, failures, op, arg, options, importData, importData0, exportData,
                   listing, scripts>>

NextReimport == NextImport \/ ImportAgain

SpecReimport == InitImport /\ [][NextReimport]_vars

C21_PolicySetOverride ==
    op \in PolicyImportOps =>
        \A j \in LogIndices :
            log[j].call = "putPolicy" =>
                log[j].data.applicationName =
                    IF options.policySetName # NoValue THEN options.policySetName
                    ELSE Get(importData0.policy, log[j].owner).applicationName

\* a policy of the set ps1 put into ps2
C21_Witness ==
    /\ op \in PolicyImportOps
    /\ options.policySetName = "ps2"
    /\ \E j \in LogIndices :
        /\ log[j].call = "putPolicy"
        /\ log[j].res = "ok"
        /\ Get(importData0.policy, log[j].owner).applicationName = "ps1"
        /\ Get(remote.policy, log[j].id).applicationName = "ps2"

\* no option: the policy stays in its set
C21_WitnessNoOption ==
    /\ op \in PolicyImportOps
    /\ options.policySetName = NoValue
    /\ \E j \in LogIndices :
        /\ log[j].call = "putPolicy"
        /\ log[j].res = "ok"
        /\ Get(remote.policy, log[j].id).applicationName = "ps1"

(***************************************************************************)
(* The error of an import.                                                 *)
(***************************************************************************)
ImportOps == PolicyImportOps \cup ClientImportOps

\* C22: an import throws the errors of all its steps, and throws them at
\* its end only: nothing is thrown before every entry its loop selects has
\* been taken, any failed step of any entry makes it throw, the successful
\* write of the object itself notwithstanding, and it returns only when no
\* step failed.
C22_AggregateErrorAtTheEnd ==
    op \in ImportOps =>
        /\ ~Done => outcome = Running
        /\ Done =>
            /\ \A i \in 1..Len(PrimaryCollection0) :
                  IsSelected(i) => \E j \in LogIndices : log[j].owner = PrimaryCollection0[i].k
            /\ FailedCalls # <<>> =>
                  /\ outcome = Thrown(FrodoError("Error importing", arg, errors))
                  /\ Leaves(outcome.error) = FailedCalls
            /\ outcome.kind = "return" => FailedCalls = <<>>

\* the first policy was written and a script of it was not; the second
\* policy was taken all the same, and the import threw
C22_Witness ==
    /\ Done
    /\ op = "importPolicies"
    /\ outcome.kind = "throw"
    /\ \E a, b, c \in LogIndices :
        /\ a < b /\ b < c
        /\ log[a].call = "putPolicy" /\ log[a].res = "ok"
        /\ log[b].call = "updateScript" /\ log[b].res = "fail" /\ log[b].owner = log[a].owner
        /\ log[c].call = "putPolicy" /\ log[c].res = "ok" /\ log[c].owner # log[a].owner
    /\ Len(FailedCalls) = 1

(***************************************************************************)
(* deleteOAuth2Clients: readOAuth2Clients, then deleteOAuth2Client of      *)
(* every client listed.  deleteOAuth2Client returns the promise of the     *)
(* call from inside its try, so that what it throws is the error of the    *)
(* call itself.  listing holds the clients, response the result array.     *)
(***************************************************************************)
Remove(m, key) == SelectSeq(m, LAMBDA e : e.k # key)

deleteOAuth2Clients ==
    /\ pc = "idle"
    /\ op' = "deleteOAuth2Clients"
    /\ arg' = NoValue
    /\ listing' = <<>>
    /\ response' = <<>>
    /\ errors' = <<>>
    /\ idx' = 1
    /\ pc' = "readOAuth2Clients"
    /\ UNCHANGED <<remote, log, failures, options, importData, importData0, exportData, scripts,
                   sub, subErrors, imported, outcome>>

\* mutant: the first delete that fails is the last
DeleteGoesOnStop(res, i, clients) == IF res = "ok" THEN i + 1 ELSE Len(clients) + 1
\* catch (error) { errors.push(error) } inside the loop: the next client
DeleteGoesOn(res, i, clients) == i + 1

deleteOAuth2ClientsDelete ==
    /\ pc = "exportLoop"
    /\ op = "deleteOAuth2Clients"
    /\ idx <= Len(listing)
    /\ \E res \in WriteOutcomes :
        /\ Record("deleteOAuth2Client", exported._id, NoObject, res, exported._id)
        /\ remote' = IF res = "ok" THEN [remote EXCEPT !.application = Remove(@, exported._id)]
                     ELSE remote
        /\ response' = IF res = "ok" THEN Append(response, exported) ELSE response
        /\ errors' = IF res = "ok" THEN errors
                     ELSE Append(errors, ApiError("deleteOAuth2Client", exported._id, res))
        /\ idx' = DeleteGoesOn(res, idx, listing)
    /\ UNCHANGED <<op, arg, options, importData, importData0, exportData, listing, scripts, pc,
                   sub, subErrors, imported, outcome>>

\* mutant: a call that deleted nothing throws
DeleteOutcomeNothingIsError(errs, result) ==
    IF errs # <<>> \/ result = <<>>
    THEN Thrown(FrodoError("Error deleting oauth2 clients", NoValue, errs))
    ELSE Returned(result)
\* if (errors.length) throw new FrodoError(..., errors); return result
DeleteOutcome(errs, result) ==
    IF errs # <<>> THEN Thrown(FrodoError("Error deleting oauth2 clients", NoValue, errs))
    ELSE Returned(result)

deleteOAuth2ClientsEnd ==
    /\ pc = "exportLoop"
    /\ op = "deleteOAuth2Clients"
    /\ idx > Len(listing)
    /\ outcome' = DeleteOutcome(errors, response)
    /\ pc' = "done"
    /\ UNCHANGED <<remote, log, failures, op, arg, options, importData, importData0,
                   exportData, listing, scripts, idx, sub, errors, subErrors, response,
                   imported>>

(***************************************************************************)
(* Every call that works on a collection, on a tenant and a bundle that    *)
(* may hold nothing.                                                       *)
(***************************************************************************)
InitBatch == InitImport \/ InitExport

NextBatch ==
    \/ NextImport
    \/ NextExport
    \/ deleteOAuth2Clients
    \/ deleteOAuth2ClientsDelete
    \/ deleteOAuth2ClientsEnd

SpecBatch == InitBatch /\ [][NextBatch]_vars

BatchOps == BatchExportOps \cup {"deleteOAuth2Clients", "importPolicies", "importOAuth2Clients"}

\* the call is an export or a delete, the reads before its loop succeeded
\* (not available counts as an empty listing) and listed nothing
ListedNothing ==
    /\ op \in BatchExportOps \cup {"deleteOAuth2Clients"}
    /\ listing = <<>>
    /\ \E j \in LogIndices : log[j].call \in {"getPolicies", "getOAuth2Clients"}
    /\ \A j \in LogIndices : log[j].res = "ok" \/ IsSwallowed(j)

\* the call is an import of a bundle whose collection holds nothing
HoldsNothing == op \in {"importPolicies", "importOAuth2Clients"} /\ PrimaryCollection0 = <<>>

EmptyResult ==
    IF op \in {"exportPolicies", "exportPoliciesByPolicySet"} THEN createPolicyExportTemplate
    ELSE IF op = "exportOAuth2Clients" THEN createOAuth2ClientExportTemplate
    ELSE <<>>

\* the items a call was made for, and those for which a call failed
AttemptedItems == {log[j].owner : j \in LogIndices} \ {NoValue}
ItemFailed(item) ==
    \E j \in LogIndices :
        log[j].owner = item /\ log[j].res # "ok" /\ ~IsSwallowed(j) /\ ~IsRepaired(j)

\* C23: a call on a collection that holds nothing returns, and returns the
\* empty result; a call that made calls for one item at least and had a
\* failure for every such item throws.
C23_NothingToDoIsNoError ==
    (op \in BatchOps /\ Done) =>
        /\ (ListedNothing \/ HoldsNothing) => outcome = Returned(EmptyResult)
        /\ (AttemptedItems # {} /\ \A item \in AttemptedItems : ItemFailed(item)) =>
               outcome.kind = "throw"

\* deleteOAuth2Clients on a tenant without clients
C23_Witness ==
    /\ op = "deleteOAuth2Clients"
    /\ Done
    /\ ListedNothing
    /\ remote.application = <<>>
    /\ outcome = Returned(<<>>)

\* two clients listed, and no delete succeeded
C23_WitnessAllFailed ==
    /\ op = "deleteOAuth2Clients"
    /\ Done
    /\ Cardinality(AttemptedItems) = 2
    /\ \A item \in AttemptedItems : ItemFailed(item)
    /\ outcome.kind = "throw"

(***************************************************************************)
(* The error of deleteOAuth2Clients.                                       *)
(***************************************************************************)
RECURSIVE DeletesUpTo(_)
DeletesUpTo(n) ==
    IF n = 0 THEN <<>>
    ELSE IF log[n].call = "deleteOAuth2Client" THEN Append(DeletesUpTo(n - 1), log[n])
    ELSE DeletesUpTo(n - 1)
\* the delete calls made, in order
Deletes == DeletesUpTo(Len(log))
FailedDeletes == SelectSeq(Deletes, LAMBDA d : d.res # "ok")

\* C30: deleteOAuth2Clients makes the delete call for every client listed,
\* in the order listed, whatever the deletes before it did; it throws at the
\* end one error that holds every failed delete, and returns the deleted
\* clients only when no delete failed.
C30_DeleteAllCollectErrors ==
    op = "deleteOAuth2Clients" =>
        /\ ~Done => outcome = Running
        /\ Done =>
            /\ [n \in 1..Len(Deletes) |-> Deletes[n].id] = [n \in 1..Len(listing) |-> listing[n]._id]
            /\ FailedDeletes # <<>> =>
                  /\ outcome.kind = "throw"
                  /\ Leaves(outcome.error) =
                        [n \in 1..Len(FailedDeletes) |->
                            [call |-> "deleteOAuth2Client", id |-> FailedDeletes[n].id,
                             res |-> FailedDeletes[n].res]]
            /\ outcome.kind = "return" =>
                  /\ ExportFailedCalls = <<>>
                  /\ outcome.value = listing
                  /\ \A n \in 1..Len(listing) : ~Has(remote.application, listing[n]._id)

\* the delete of the first client failed, the second was deleted
C30_Witness ==
    /\ op = "deleteOAuth2Clients"
    /\ Done
    /\ Len(Deletes) = 2
    /\ Deletes[1].res = "fail"
    /\ Deletes[2].res = "ok"
    /\ Keys(remote.application) = <<Deletes[1].id>>
    /\ outcome.kind = "throw"
    /\ Len(Leaves(outcome.error)) = 1

(***************************************************************************)
(* The order of the remote calls.  Every await of the code is one step of  *)
(* the one thread of control a call has, so the log is the order in which  *)
(* the calls were issued and each was answered before the next was issued. *)
(***************************************************************************)
\* the items of the collection the call works on, in iteration order
ItemOrder ==
    IF op \in {"importPolicies", "importOAuth2Clients"} THEN Keys(PrimaryCollection0)
    ELSE [n \in 1..Len(listing) |-> listing[n]._id]
ItemPosition(item) == CHOOSE n \in 1..Len(ItemOrder) : ItemOrder[n] = item
ItemCalls == {j \in LogIndices : log[j].owner # NoValue}

\* C24: the calls of a batch are made item by item in the order of the
\* collection: every call made for an item was answered before the first
\* call for the next item was issued, and no call for an earlier item
\* follows a call for a later one.
C24_OneItemAtATime ==
    op \in BatchOps =>
        /\ \A j \in ItemCalls : \E n \in 1..Len(ItemOrder) : ItemOrder[n] = log[j].owner
        /\ \A i, j \in ItemCalls : i < j => ItemPosition(log[i].owner) <= ItemPosition(log[j].owner)
        /\ \A j \in ItemCalls :
              (pc \in {"loop", "exportLoop"} /\ idx <= Len(ItemOrder)) =>
                  ItemPosition(log[j].owner) < idx

\* two policies exported with their prerequisites and scripts: at least two
\* calls for the first, then at least two for the second
C24_Witness ==
    /\ op = "exportPolicies"
    /\ Done
    /\ Len(ItemOrder) = 2
    /\ \E a, b, c, d \in ItemCalls :
        /\ a < b /\ b < c /\ c < d
        /\ log[a].owner = ItemOrder[1] /\ log[b].owner = ItemOrder[1]
        /\ log[c].owner = ItemOrder[2] /\ log[d].owner = ItemOrder[2]

\* the same for an import
C24_WitnessImport ==
    /\ op = "importPolicies"
    /\ Done
    /\ Len(ItemOrder) = 2
    /\ \E a, b, c, d \in ItemCalls :
        /\ a < b /\ b < c /\ c < d
        /\ log[a].owner = ItemOrder[1] /\ log[b].owner = ItemOrder[1]
        /\ log[c].owner = ItemOrder[2] /\ log[d].owner = ItemOrder[2]

(***************************************************************************)
(* The options of an export and the reads it makes.                        *)
(***************************************************************************)
\* C29: a policy export without prereqs reads no resource type and no
\* policy set and its bundle holds none; an export of policies or of OAuth2
\* clients without deps reads no script and its bundle holds none.
C29_OptionsGateReads ==
    /\ (op \in PolicyExportOps /\ ~options.prereqs) =>
          /\ \A j \in LogIndices : log[j].call \notin {"getResourceType", "readPolicySet"}
          /\ exportData.resourcetype = <<>>
          /\ exportData.policyset = <<>>
          /\ (Done /\ outcome.kind = "return") =>
                outcome.value.resourcetype = <<>> /\ outcome.value.policyset = <<>>
    /\ (op \in PolicyExportOps \cup ClientExportOps /\ ~options.deps) =>
          /\ \A j \in LogIndices : log[j].call # "readScript"
          /\ exportData.script = <<>>
          /\ (Done /\ outcome.kind = "return") => outcome.value.script = <<>>

\* a policy with a resource type, a policy set and scripts, exported with
\* deps and without prereqs
C29_Witness ==
    /\ op \in PolicyExportOps
    /\ Done
    /\ ~options.prereqs
    /\ options.deps
    /\ outcome.kind = "return"
    /\ Has(outcome.value.policy, "p1")
    /\ Get(outcome.value.policy, "p1").resourceTypeUuid # NoValue
    /\ outcome.value.script # <<>>
    /\ outcome.value.resourcetype = <<>>

\* a client that references scripts, exported without deps
C29_WitnessClient ==
    /\ op \in ClientExportOps
    /\ Done
    /\ ~options.deps
    /\ outcome.kind = "return"
    /\ Has(outcome.value.application, "c2")
    /\ outcome.value.script = <<>>

(***************************************************************************)
(* The answer "not available" to the calls of an export.                   *)
(***************************************************************************)
ExportOps == PolicyExportOps \cup ClientExportOps
NotAvailableCalls == {j \in LogIndices : log[j].res = "notAvailable"}
CallOf(j) == [call |-> log[j].call, id |-> log[j].id, res |-> log[j].res]
IsThrown(j) == outcome.kind = "throw" /\ CallOf(j) \in Range(Leaves(outcome.error))

\* C26 as stated: only the listing of all clients may answer "not
\* available" without an error; the same answer to any other call of an
\* export, the read of a script a client references included, is thrown.
C26_OnlyTheListingIsSwallowed ==
    (op \in ExportOps /\ Done) =>
        \A j \in NotAvailableCalls : log[j].call # "getOAuth2Clients" => IsThrown(j)

\* C26, amended: two calls of an export may answer "not available" without
\* an error, the listing of all clients and the read of a script that an
\* OAuth2 client references (the client is exported without that script);
\* the same answer to any other call (the read of a policy, of the policies,
\* of a resource type, of a policy set, of a script a policy references, of
\* one client) is thrown, and an export whose only failures are of the two
\* kinds returns its bundle.
C26_ListingAndClientScriptsSwallowed ==
    (op \in ExportOps /\ Done) =>
        /\ \A j \in NotAvailableCalls :
              IF log[j].call = "getOAuth2Clients"
                 \/ (log[j].call = "readScript" /\ op \in ClientExportOps)
              THEN ~IsThrown(j)
              ELSE IsThrown(j)
        /\ (\A j \in LogIndices : log[j].res = "ok" \/ IsSwallowed(j)) => outcome.kind = "return"

\* a client exported without the script it references, whose read was not
\* available; nothing thrown
C26_Witness ==
    /\ op = "exportOAuth2Clients"
    /\ Done
    /\ outcome.kind = "return"
    /\ \E j \in NotAvailableCalls :
        /\ log[j].call = "readScript"
        /\ Has(outcome.value.application, log[j].owner)
        /\ ~Has(outcome.value.script, log[j].id)
        /\ log[j].id \in Range(ClientScriptReferences(Get(outcome.value.application, log[j].owner)))

\* a script of a policy whose read was not available: thrown
C26_WitnessPolicy ==
    /\ op \in PolicyExportOps
    /\ Done
    /\ \E j \in NotAvailableCalls : log[j].call = "readScript" /\ IsThrown(j)

(***************************************************************************)
(* updatePolicy called on its own.                                         *)
(***************************************************************************)
\* C28: updatePolicy makes one put and no more; when the put is rejected,
\* as invalid or otherwise, the call throws that failure wrapped, the
\* policy passed in is as it was and the remote store is as it was.
C28_UpdatePolicyNeverRepairs ==
    op = "updatePolicy" =>
        /\ Cardinality(Puts) <= 1
        /\ importData = importData0
        /\ Done =>
            /\ Len(log) = 2
            /\ log[2].call = "putPolicy" /\ log[2].id = arg /\ log[2].data = importData0
            /\ IF log[2].res = "ok"
               THEN /\ outcome = Returned(importData0)
                    /\ remote.policy = Put(RemoteAtCall.policy, arg, importData0)
               ELSE /\ outcome = Thrown(FrodoError("Error updating policy", arg,
                                                   <<ApiError("putPolicy", arg, log[2].res)>>))
                    /\ remote = RemoteAtCall

\* the put of a policy was rejected as invalid, and that was thrown
C28_Witness ==
    /\ op = "updatePolicy"
    /\ Done
    /\ log[2].res = "invalid"
    /\ outcome.kind = "throw"
    /\ Leaves(outcome.error) = <<[call |-> "putPolicy", id |-> arg, res |-> "invalid"]>>

(***************************************************************************)
(* readPolicy, deletePolicy, readOAuth2Client and deleteOAuth2Client       *)
(* called on their own, next to the creates and updates.  readPolicy and   *)
(* deletePolicy await the call inside their try; readOAuth2Client and      *)
(* deleteOAuth2Client return its promise from inside the try, and a        *)
(* promise that rejects after the return is not caught there.              *)
(***************************************************************************)
readPolicy(policyId) == StartCall("readPolicy", policyId, NoObject, "readPolicy")
deletePolicy(policyId) == StartCall("deletePolicy", policyId, NoObject, "deletePolicy")
readOAuth2Client(clientId) == StartCall("readOAuth2Client", clientId, NoObject, "readOAuth2Client")
deleteOAuth2Client(clientId) ==
    StartCall("deleteOAuth2Client", clientId, NoObject, "deleteOAuth2Client")

\* try { const response = await call; return response } catch (error) { throw new FrodoError(message, error) }
AwaitedInTry(message, id, error) == FrodoError(message, id, <<error>>)
\* try { return call } catch (error) { throw new FrodoError(message, error) }
ReturnedFromTry(message, id, error) == error

DeleteOutcomes(exists) == IF exists THEN WriteOutcomes ELSE {"fail"}

readPolicyStep ==
    /\ pc = "readPolicy"
    /\ \E res \in ReadOutcomes(Has(remote.policy, arg)) :
        /\ Record("getPolicy", arg, NoObject, res, arg)
        /\ outcome' = IF res = "ok" THEN Returned(Get(remote.policy, arg))
                      ELSE Thrown(AwaitedInTry("Error reading policy", arg,
                                               ApiError("getPolicy", arg, res)))
    /\ pc' = "done"
    /\ UNCHANGED <<remote, op, arg, options, importData, importData0, exportData, listing,
                   scripts, idx, sub, errors, subErrors, response, imported>>

deletePolicyStep ==
    /\ pc = "deletePolicy"
    /\ \E res \in DeleteOutcomes(Has(remote.policy, arg)) :
        /\ Record("deletePolicy", arg, NoObject, res, arg)
        /\ remote' = IF res = "ok" THEN [remote EXCEPT !.policy = Remove(@, arg)] ELSE remote
        /\ outcome' = IF res = "ok" THEN Returned(Get(remote.policy, arg))
                      ELSE Thrown(AwaitedInTry("Error deleting policy", arg,
                                               ApiError("deletePolicy", arg, res)))
    /\ pc' = "done"
    /\ UNCHANGED <<op, arg, options, importData, importData0, exportData, listing, scripts, idx,
                   sub, errors, subErrors, response, imported>>

readOAuth2ClientStep ==
    /\ pc = "readOAuth2Client"
    /\ op = "readOAuth2Client"
    /\ \E res \in ReadOutcomes(Has(remote.application, arg)) :
        /\ Record("getOAuth2Client", arg, NoObject, res, arg)
        /\ outcome' = IF res = "ok" THEN Returned(Get(remote.application, arg))
                      ELSE Thrown(ReturnedFromTry("Error reading oauth2 client", arg,
                                                  ApiError("getOAuth2Client", arg, res)))
    /\ pc' = "done"
    /\ UNCHANGED <<remote, op, arg, options, importData, importData0, exportData, listing,
                   scripts, idx, sub, errors, subErrors, response, imported>>

deleteOAuth2ClientStep ==
    /\ pc = "deleteOAuth2Client"
    /\ \E res \in DeleteOutcomes(Has(remote.application, arg)) :
        /\ Record("deleteOAuth2Client", arg, NoObject, res, arg)
        /\ remote' = IF res = "ok" THEN [remote EXCEPT !.application = Remove(@, arg)] ELSE remote
        /\ outcome' = IF res = "ok" THEN Returned(Get(remote.application, arg))
                      ELSE Thrown(ReturnedFromTry("Error deleting oauth2 client", arg,
                                                  ApiError("deleteOAuth2Client", arg, res)))
    /\ pc' = "done"
    /\ UNCHANGED <<op, arg, options, importData, importData0, exportData, listing, scripts, idx,
                   sub, errors, subErrors, response, imported>>

NextSingle ==
    \/ NextCreate
    \/ \E policyId \in PolicyIds : readPolicy(policyId)
    \/ \E policyId \in PolicyIds : deletePolicy(policyId)
    \/ \E clientId \in ClientIds : readOAuth2Client(clientId)
    \/ \E clientId \in ClientIds : deleteOAuth2Client(clientId)
    \/ readPolicyStep
    \/ deletePolicyStep
    \/ readOAuth2ClientStep
    \/ deleteOAuth2ClientStep

SpecSingle == InitCreate /\ [][NextSingle]_vars

SingleOps == {"readPolicy", "updatePolicy", "deletePolicy",
              "readOAuth2Client", "updateOAuth2Client", "deleteOAuth2Client"}

\* the call has ended on a failed remote call
EndedOnFailure == Done /\ log[Len(log)].res # "ok"

\* the error thrown wraps the failure of the last remote call and names the
\* object
WrapsLastFailure(error) ==
    /\ ~error.api
    /\ error.id = arg
    /\ Leaves(error) = <<CallOf(Len(log))>>

\* C25: a read, an update or a delete of one policy or one OAuth2 client
\* that ends on a failed remote call throws an error that wraps the failure
\* and names the object; the error of the remote call itself is never what
\* the caller gets.
C25_SingleFailuresAreWrapped ==
    (op \in SingleOps /\ EndedOnFailure) =>
        outcome.kind = "throw" /\ WrapsLastFailure(outcome.error)

\* what holds of the four functions that await the call
C25_AwaitedFailuresAreWrapped ==
    (op \in SingleOps \ {"readOAuth2Client", "deleteOAuth2Client"} /\ EndedOnFailure) =>
        outcome.kind = "throw" /\ WrapsLastFailure(outcome.error)

(***************************************************************************)
(* Two callers of createPolicy, or of createOAuth2Client, for the same id  *)
(* at the same time.  Each caller is at an await of its own: pc, outcome   *)
(* and importData hold one value per caller, and the owner of a log entry  *)
(* is the caller that made the call.                                       *)
(***************************************************************************)
Callers == {"a", "b"}

CreatedCollection(r) == IF op = "createPolicy" THEN r.policy ELSE r.application
CreatePool == IF op = "createPolicy" THEN PolicyPool ELSE ClientPool
ProbeCall == IF op = "createPolicy" THEN "getPolicy" ELSE "getOAuth2Client"
PutCall == IF op = "createPolicy" THEN "putPolicy" ELSE "putOAuth2Client"

InitRace ==
    /\ log = <<>>
    /\ failures = 0
    /\ op \in CreateOps
    /\ arg \in IF op = "createPolicy" THEN {"p1", "p2"} ELSE {"c1", "c2"}
    /\ \E stored \in SUBSET {arg} :
        remote = IF op = "createPolicy"
                 THEN [EmptyRemote EXCEPT !.policy = MapOf(<<arg>>, stored, StoredPolicy)]
                 ELSE [EmptyRemote EXCEPT !.application = MapOf(<<arg>>, stored, StoredClient)]
    /\ importData \in [Callers -> {CreatePool[id] : id \in DOMAIN CreatePool}]
    /\ importData0 = importData
    /\ options = [deps |-> FALSE, prereqs |-> FALSE, policySetName |-> NoValue]
    /\ exportData = NoObject
    /\ listing = <<>>
    /\ scripts = <<>>
    /\ pc = [c \in Callers |-> "probe"]
    /\ idx = 1
    /\ sub = 1
    /\ errors = <<>>
    /\ subErrors = <<>>
    /\ response = NoObject
    /\ imported = <<>>
    /\ outcome = [c \in Callers |-> Running]

\* mutant: the remote store rejects the put of an object it holds
RacePutOutcomesIfAbsent(exists, outcomes) ==
    IF exists THEN {out \in outcomes : out.res # "ok"} ELSE outcomes
\* _putPolicy and _putOAuth2Client create or replace: the put is not told
\* what the read before it found
RacePutOutcomes(exists, outcomes) == outcomes

\* await _getPolicy / await readOAuth2Client of one caller
RaceProbe(c) ==
    /\ pc[c] = "probe"
    /\ \E res \in ReadOutcomes(Has(CreatedCollection(remote), arg)) :
        /\ log' = Append(log, [call |-> ProbeCall, id |-> arg, data |-> NoObject, res |-> res,
                               owner |-> c])
        /\ failures' = IF Has(CreatedCollection(remote), arg) /\ res # "ok"
                       THEN failures + 1 ELSE failures
        /\ pc' = [pc EXCEPT ![c] = PcAfterProbe(res, "put")]
    /\ UNCHANGED <<remote, op, arg, options, importData, importData0, exportData, listing,
                   scripts, idx, sub, errors, subErrors, response, imported, outcome>>

RaceAlreadyExists(c) ==
    /\ pc[c] = "exists"
    /\ outcome' = [outcome EXCEPT ![c] = Thrown(AlreadyExists(arg))]
    /\ pc' = [pc EXCEPT ![c] = "done"]
    /\ UNCHANGED <<remote, log, failures, op, arg, options, importData, importData0, exportData,
                   listing, scripts, idx, sub, errors, subErrors, response, imported>>

\* the put of one caller: the put of createPolicy, the first put of
\* updateOAuth2Client or, after a rejection as invalid, its second put
RacePut(c) ==
    /\ pc[c] \in {"put", "retry"}
    /\ \E out \in RacePutOutcomes(Has(CreatedCollection(remote), arg), PutOutcomes) :
        LET repair == out.res = "invalid" /\ op = "createOAuth2Client" /\ pc[c] = "put"
            error == ApiError(PutCall, arg, out.res)
        IN /\ Record(PutCall, arg, importData[c], out.res, c)
           /\ remote' = IF out.res # "ok" THEN remote
                        ELSE IF op = "createPolicy"
                        THEN [remote EXCEPT !.policy = Put(@, arg, importData[c])]
                        ELSE [remote EXCEPT !.application = Put(@, arg, importData[c])]
           /\ importData' = IF repair
                            THEN [importData EXCEPT
                                    ![c] = RemoveInvalidAttributes(@, out.validAttributes)]
                            ELSE importData
           /\ outcome' = IF out.res = "ok" THEN [outcome EXCEPT ![c] = Returned(importData[c])]
                         ELSE IF repair THEN outcome
                         ELSE IF op = "createPolicy"
                         THEN [outcome EXCEPT
                                 ![c] = Thrown(FrodoError("Error creating policy", arg, <<error>>))]
                         ELSE [outcome EXCEPT
                                 ![c] = Thrown(ClientCallError(op, arg, error))]
           /\ pc' = [pc EXCEPT ![c] = IF repair THEN "retry" ELSE "done"]
    /\ UNCHANGED <<op, arg, options, importData0, exportData, listing, scripts, idx, sub, errors,
                   subErrors, response, imported>>

NextRace ==
    \/ \E c \in Callers : RaceProbe(c)
    \/ \E c \in Callers : RaceAlreadyExists(c)
    \/ \E c \in Callers : RacePut(c)

SpecRace == InitRace /\ [][NextRace]_vars

\* the put of caller c is accepted
PutAccepted(c) == RacePut(c) /\ outcome'[c].kind = "return"

OkPuts == {j \in LogIndices : log[j].call = PutCall /\ log[j].res = "ok"}
Probes == {j \in LogIndices : log[j].call = ProbeCall}

\* C27: create is a read followed by a put, and nothing ties the two: a
\* caller whose read did not find the object can have its put accepted
\* whatever the other caller has done since, its own accepted put of the
\* same id included; when both reads came before both puts and both puts
\* were accepted, both callers return and neither gets "already exists".
C27_CreateIsNotAtomic ==
    /\ \A c \in Callers : pc[c] \in {"put", "retry"} => ENABLED PutAccepted(c)
    /\ (\A c \in Callers : pc[c] = "done" /\ \E j \in OkPuts : log[j].owner = c) =>
          \A c \in Callers : outcome[c].kind = "return"

\* the id was absent, both reads were made before either put, both puts
\* were accepted, both callers returned, and the remote store holds what the
\* second put, which is not what the first put
C27_Witness ==
    /\ \A c \in Callers : pc[c] = "done" /\ outcome[c].kind = "return"
    /\ Len(log) = 4
    /\ Probes = {1, 2}
    /\ OkPuts = {3, 4}
    /\ log[1].owner # log[2].owner
    /\ log[3].owner # log[4].owner
    /\ log[3].data # log[4].data
    /\ Get(CreatedCollection(remote), arg) = log[4].data

(***************************************************************************)
(* What findScriptUuids leaves alone.                                      *)
(***************************************************************************)
\* the conditions held by the fields of a condition
Children(c) ==
    (IF c.condition = NoObject THEN {} ELSE {c.condition})
        \cup {c.conditions[i] : i \in 1..Len(c.conditions)}

\* the scriptId values below a condition that is no combinator: its own
\* when it is no Script condition, and all those of the conditions it holds
RECURSIVE AllIds(_)
AllIds(c) ==
    IF c = NoObject THEN {}
    ELSE (IF c.scriptId = NoValue THEN {} ELSE {c.scriptId})
             \cup UNION {AllIds(child) : child \in Children(c)}

RECURSIVE OutOfReach(_)
OutOfReach(c) ==
    IF c = NoObject THEN {}
    ELSE IF c.type \in Combinators THEN UNION {OutOfReach(child) : child \in Children(c)}
    ELSE IF c.type = "Script" THEN UNION {AllIds(child) : child \in Children(c)}
    ELSE AllIds(c)

\* C31: a condition that is neither a combinator nor a Script condition
\* yields nothing, whatever its scriptId, condition and conditions fields
\* hold; a Script condition yields its scriptId alone; and a scriptId that
\* occurs only below conditions that are no combinators is not in the result.
C31_OnlyScriptNodesThroughCombinators ==
    (op = "findScriptUuids" /\ pc = "done" /\ arg # NoObject) =>
        /\ arg.type \notin Combinators \cup {"Script"} => response = <<>>
        /\ arg.type = "Script" => response = <<arg.scriptId>>
        /\ \A s \in OutOfReach(arg) \ ScriptLeafIds(arg) : s \notin Range(response)

\* a SimpleTime condition that holds a Script condition for s1 next to a
\* Script condition for s2 that itself holds one more condition: s2 only
C31_Witness ==
    /\ op = "findScriptUuids"
    /\ pc = "done"
    /\ arg = Combinator("AND", NoObject,
                 <<OtherCondition("SimpleTime", NoValue, ScriptCondition("s1"), <<>>),
                   ScriptCondition("s2")>>)
    /\ response = <<"s2">>

\* a condition of another type with a scriptId of its own yields nothing
C31_WitnessOwnScriptId ==
    /\ op = "findScriptUuids"
    /\ pc = "done"
    /\ arg = Combinator("NOT", OtherLeaf, <<>>)
    /\ response = <<>>

(***************************************************************************)
(* Where the script references of a client are looked for.                 *)
(***************************************************************************)
\* the client an item of a client import or export is about: the entry of
\* the bundle as it was given, the client of the remote store
ClientOf(id) ==
    IF op \in ClientImportOps THEN Get(importData0.application, id)
    ELSE Get(remote.application, id)

\* the values of the keys of overrideOAuth2ClientConfig itself whose last
\* six characters are S, c, r, i, p, t
TopLevelScriptValues(client) ==
    {client.overrideOAuth2ClientConfig[n].v :
        n \in {m \in 1..Len(client.overrideOAuth2ClientConfig) :
                 LET key == client.overrideOAuth2ClientConfig[m].k
                 IN /\ Len(key) >= 6
                    /\ \A i \in 1..6 : key[Len(key) - 6 + i] = Script[i]}}

ScriptCalls == {j \in LogIndices : log[j].call \in {"readScript", "updateScript"}}

\* C32: in an import or export of OAuth2 clients every read and every write
\* of a script is for the value of a key of overrideOAuth2ClientConfig
\* itself that ends in Script; the client c1, which names s2 only under the
\* key Scripts and under the key aScript of an object below the key nested,
\* never has s2 read or written.
C32_TopLevelScriptKeysOnly ==
    op \in ClientImportOps \cup ClientExportOps =>
        \A j \in ScriptCalls :
            /\ log[j].id \in TopLevelScriptValues(ClientOf(log[j].owner))
            /\ log[j].owner = "c1" => log[j].id = "s1"

\* an export with deps of c1 alone ended with the one read of s1
C32_Witness ==
    /\ op \in ClientExportOps
    /\ Done
    /\ options.deps
    /\ outcome.kind = "return"
    /\ Keys(exportData.application) = <<"c1">>
    /\ \E j \in ScriptCalls : log[j].owner = "c1" /\ log[j].id = "s1" /\ log[j].res = "ok"
    /\ Keys(exportData.script) = <<"s1">>

\* an import with deps of c1 from a bundle that holds s1 and s2 ended with
\* the one write of s1
C32_WitnessImport ==
    /\ op \in ClientImportOps
    /\ Done
    /\ options.deps
    /\ outcome.kind = "return"
    /\ KeySet(importData0.script) = {"s1", "s2"}
    /\ Keys(importData0.application) = <<"c1">>
    /\ {log[j].id : j \in ScriptCalls} = {"s1"}

(***************************************************************************)
(* What an import leaves in the remote store.                              *)
(***************************************************************************)
WriteCalls == {"putPolicy", "putOAuth2Client", "updateScript", "updateResourceType",
               "updatePolicySet"}

\* the collection of the remote store a write goes to
WrittenCollection(call) ==
    IF call = "putPolicy" THEN remote.policy
    ELSE IF call = "putOAuth2Client" THEN remote.application
    ELSE IF call = "updateScript" THEN remote.script
    ELSE IF call = "updateResourceType" THEN remote.resourcetype
    ELSE remote.policyset

OkWrites == {j \in LogIndices : log[j].call \in WriteCalls /\ log[j].res = "ok"}

\* no later write of the same object succeeded
IsLastOkWrite(j) ==
    \A n \in OkWrites : n > j => ~(log[n].call = log[j].call /\ log[n].id = log[j].id)

\* C33: an import makes no call other than writes, and at every point of
\* it, its end on the aggregate error included, the remote store holds
\* every object a write of it succeeded for, as the last successful write
\* of that object left it.
C33_NoRollback ==
    op \in ImportOps =>
        /\ \A j \in LogIndices : log[j].call \in WriteCalls
        /\ \A j \in OkWrites :
            /\ Has(WrittenCollection(log[j].call), log[j].id)
            /\ IsLastOkWrite(j) =>
                  Get(WrittenCollection(log[j].call), log[j].id) = log[j].data

\* importPolicies threw; a write succeeded before the failed step and one
\* after it, and the store holds both objects
C33_Witness ==
    /\ op = "importPolicies"
    /\ Done
    /\ outcome.kind = "throw"
    /\ \E a, b, c \in LogIndices :
        /\ a < b /\ b < c
        /\ a \in OkWrites /\ c \in OkWrites
        /\ log[b].res = "fail"
        /\ log[a].call = "putPolicy" /\ log[c].call = "putPolicy"
        /\ log[a].id # log[c].id
        /\ Has(remote.policy, log[a].id) /\ Has(remote.policy, log[c].id)

\* importOAuth2Clients threw on its second client; the first stays written
C33_WitnessClients ==
    /\ op = "importOAuth2Clients"
    /\ Done
    /\ outcome.kind = "throw"
    /\ \E a, b \in LogIndices :
        /\ a < b
        /\ a \in OkWrites /\ log[a].call = "putOAuth2Client"
        /\ log[b].res = "fail" /\ log[b].call = "putOAuth2Client"
        /\ Get(remote.application, log[a].id) = log[a].data
    /\ Len(remote.application) = 1

(***************************************************************************)
(* The two resolutions of a policy export.                                 *)
(***************************************************************************)
PrerequisiteCalls == {"getResourceType", "readPolicySet"}

\* C34: in a policy export with prereqs and deps, the call after a failed
\* read of a resource type is the read of the policy set of the same
\* policy; the policy set is read, and every script of the policy is read,
\* whatever the reads of the prerequisites of the policy answered; and the
\* error the export throws holds every failed read, in order.
C34_ResolutionsAreIndependent ==
    (op \in PolicyExportOps /\ options.prereqs /\ options.deps) =>
        /\ \A j \in LogIndices :
            (log[j].call = "getResourceType" /\ log[j].res # "ok" /\ j < Len(log)) =>
                /\ log[j + 1].call = "readPolicySet"
                /\ log[j + 1].owner = log[j].owner
                /\ log[j + 1].id = PolicyPool[log[j].owner].applicationName
        /\ \A j \in LogIndices :
            (log[j].call = "readPolicySet" /\ j < Len(log)
                /\ findScriptUuids(PolicyPool[log[j].owner].condition) # <<>>) =>
                /\ log[j + 1].call = "readScript"
                /\ log[j + 1].owner = log[j].owner
        /\ Done =>
            /\ \A j \in LogIndices :
                log[j].call \in PrerequisiteCalls =>
                    /\ \E n \in LogIndices :
                        log[n].call = "readPolicySet" /\ log[n].owner = log[j].owner
                    /\ OwnedReads(log[j].owner)
                           = findScriptUuids(PolicyPool[log[j].owner].condition)
            /\ ExportFailedCalls # <<>> =>
                /\ outcome.kind = "throw"
                /\ Leaves(outcome.error) = ExportFailedCalls

\* the resource type and the policy set of a policy could not be read, its
\* scripts were read all the same, and the export threw both failures
C34_Witness ==
    /\ op \in PolicyExportOps
    /\ options.prereqs /\ options.deps
    /\ Done
    /\ outcome.kind = "throw"
    /\ \E a, b, c \in LogIndices :
        /\ a < b /\ b < c
        /\ log[a].call = "getResourceType" /\ log[a].res # "ok"
        /\ log[b].call = "readPolicySet" /\ log[b].res # "ok" /\ log[b].owner = log[a].owner
        /\ log[c].call = "readScript" /\ log[c].res = "ok" /\ log[c].owner = log[a].owner
    /\ Len(Leaves(outcome.error)) = 2

\* a prerequisite and a script of the same policy failed: both are thrown
C34_WitnessBothSteps ==
    /\ op \in PolicyExportOps
    /\ options.prereqs /\ options.deps
    /\ Done
    /\ \E a, c \in LogIndices :
        /\ a < c
        /\ log[a].call = "getResourceType" /\ log[a].res # "ok"
        /\ log[c].call = "readScript" /\ log[c].res # "ok" /\ log[c].owner = log[a].owner
        /\ Leaves(outcome.error)
             = <<[call |-> "getResourceType", id |-> log[a].id, res |-> log[a].res],
                 [call |-> "readScript", id |-> log[c].id, res |-> log[c].res]>>

(***************************************************************************)
(* The scripts of a bundle under construction.                             *)
(***************************************************************************)
OkScriptReads == {j \in LogIndices : log[j].call = "readScript" /\ log[j].res = "ok"}

\* C35: at every point of an export the script collection of its bundle has
\* no script id twice, and what it holds under an id is the script of the
\* remote store with that id, its text converted if asked for.
C35_ScriptOncePerBundle ==
    (op \in PolicyExportOps \cup ClientExportOps /\ exportData # NoObject) =>
        /\ \A i, j \in 1..Len(exportData.script) :
              exportData.script[i].k = exportData.script[j].k => i = j
        /\ \A i \in 1..Len(exportData.script) :
            LET entry == exportData.script[i]
            IN /\ entry.v._id = entry.k
               /\ Has(remote.script, entry.k)
               /\ entry.v = IF options.useStringArrays
                            THEN [Get(remote.script, entry.k) EXCEPT
                                    !.script = [enc |-> "array", text |-> entry.k]]
                            ELSE Get(remote.script, entry.k)

\* two policies reference s1, s1 was read for each, and the bundle holds it once
C35_Witness ==
    /\ op = "exportPolicies"
    /\ Done
    /\ outcome.kind = "return"
    /\ \E a, b \in OkScriptReads :
        /\ log[a].id = "s1" /\ log[b].id = "s1"
        /\ log[a].owner # log[b].owner
    /\ Len(SelectSeq(exportData.script, LAMBDA e : e.k = "s1")) = 1

\* two clients reference s1 and s2, and the bundle holds each once
C35_WitnessClients ==
    /\ op = "exportOAuth2Clients"
    /\ Done
    /\ outcome.kind = "return"
    /\ Keys(exportData.application) = <<"c1", "c2">>
    /\ Keys(exportData.script) = <<"s1", "s2">>

(***************************************************************************)
(* What the repair of updateOAuth2Client removes.                          *)
(***************************************************************************)
\* the first put of the call was rejected as invalid, and clientData repaired
Repaired ==
    /\ op \in {"createOAuth2Client", "updateOAuth2Client"}
    /\ \E j \in LogIndices :
        /\ log[j].call = "putOAuth2Client"
        /\ log[j].res = "invalid"
        /\ \A n \in 1..(j - 1) : log[n].call # "putOAuth2Client"

NestedObjects(client) == <<client.overrideOAuth2ClientConfig, client.coreOAuth2ClientConfig>>

\* C36: after the repair the client has its top-level attributes as they
\* were passed; each nested object has kept its attribute _id; and for the
\* list of valid attributes the server reported, each nested object holds
\* exactly its attributes that are in the list or are _id, in their order.
\* Without a repair the client is as it was passed.
C36_RepairRemovesNestedInvalidOnly ==
    op \in {"createOAuth2Client", "updateOAuth2Client"} =>
        /\ ~Repaired => importData = importData0
        /\ Repaired =>
            /\ importData._id = importData0._id
            /\ importData._rev = importData0._rev
            /\ importData._provider # NoObject
            /\ importData._provider._id = importData0._provider._id
            /\ \A n \in 1..2 :
                \A i \in 1..Len(NestedObjects(importData0)[n]) :
                    NestedObjects(importData0)[n][i].k = underscoreId =>
                        NestedObjects(importData0)[n][i] \in Range(NestedObjects(importData)[n])
            /\ \E valid \in ValidAttributeLists :
                \A n \in 1..2 :
                    NestedObjects(importData)[n]
                        = SelectSeq(NestedObjects(importData0)[n],
                                    LAMBDA e : \/ \E m \in 1..Len(valid) : valid[m] = e.k
                                               \/ e.k = underscoreId)

\* updateOAuth2Client of c1 was repaired for the list aScript, scope and
\* put again: bScript, Scripts and nested are gone from
\* overrideOAuth2ClientConfig, _id and scope are kept in
\* coreOAuth2ClientConfig, and _id and _rev of the client are as passed
C36_Witness ==
    /\ op = "updateOAuth2Client"
    /\ Done
    /\ Repaired
    /\ outcome.kind = "return"
    /\ importData0 = ClientPool["c1"]
    /\ importData.overrideOAuth2ClientConfig = <<[k |-> aScript, v |-> "s1"]>>
    /\ importData.coreOAuth2ClientConfig
         = <<[k |-> underscoreId, v |-> "core"], [k |-> scope, v |-> "openid"]>>
    /\ importData._id = "c1"
    /\ importData._rev = "1"
    /\ Get(remote.application, arg) = importData

(***************************************************************************)
(* The policy set written as the prerequisite of a policy put into another *)
(* policy set.                                                             *)
(***************************************************************************)
PolicySetWrites == {j \in LogIndices : log[j].call = "updatePolicySet"}

\* C37: in a policy import with prereqs and policySetName every policy set
\* written is the entry of the bundle under options.policySetName; none is
\* written when the bundle has no such entry, whatever it holds under the
\* applicationName of the policy as passed in; and when it has one, it is
\* written for every policy the import has taken.
C37_PrerequisiteUnderOverriddenName ==
    (op \in PolicyImportOps /\ options.prereqs /\ options.policySetName # NoValue) =>
        /\ \A j \in PolicySetWrites :
            /\ log[j].id = options.policySetName
            /\ Has(importData0.policyset, options.policySetName)
            /\ log[j].data = Get(importData0.policyset, options.policySetName)
        /\ ~Has(importData0.policyset, options.policySetName) =>
            /\ PolicySetWrites = {}
            /\ remote.policyset = <<>>
        /\ Has(importData0.policyset, options.policySetName) =>
            \A j \in LogIndices :
                log[j].call = "putPolicy" =>
                    \E n \in PolicySetWrites : n < j /\ log[n].owner = log[j].owner

\* a policy of ps1 imported into ps2 from a bundle that holds both policy
\* sets: ps2 is written, ps1 is not
C37_Witness ==
    /\ op \in PolicyImportOps
    /\ Done
    /\ options.prereqs
    /\ options.policySetName = "ps2"
    /\ KeySet(importData0.policyset) = {"ps1", "ps2"}
    /\ \E j \in LogIndices :
        /\ log[j].call = "putPolicy" /\ log[j].res = "ok"
        /\ Get(importData0.policy, log[j].owner).applicationName = "ps1"
    /\ Keys(remote.policyset) = <<"ps2">>

\* the bundle holds ps1 only: the policy is put into ps2 and no policy set
\* is written
C37_WitnessNoEntry ==
    /\ op \in PolicyImportOps
    /\ Done
    /\ options.prereqs
    /\ options.policySetName = "ps2"
    /\ KeySet(importData0.policyset) = {"ps1"}
    /\ \E j \in LogIndices :
        /\ log[j].call = "putPolicy" /\ log[j].res = "ok"
        /\ Get(importData0.policy, log[j].owner).applicationName = "ps1"
        /\ log[j].data.applicationName = "ps2"
    /\ remote.policyset = <<>>
    /\ outcome.kind = "return"

(***************************************************************************)
(* The scripts of a policy that was not written.                           *)
(***************************************************************************)
\* the scripts written for one policy after call j, in order
RECURSIVE ScriptWritesFromTo(_, _, _)
ScriptWritesFromTo(owner, j, n) ==
    IF n <= j THEN <<>>
    ELSE IF log[n].call = "updateScript" /\ log[n].owner = owner
    THEN Append(ScriptWritesFromTo(owner, j, n - 1), log[n].id)
    ELSE ScriptWritesFromTo(owner, j, n - 1)

FailedPolicyPuts == {j \in LogIndices : log[j].call = "putPolicy" /\ log[j].res # "ok"}

\* C38: in a policy import with deps, the call after a failed put of a
\* policy is the write of the first script of that policy; when the import
\* has ended, every script of the policy was written after the failed put,
\* and the error thrown holds the failed put.
C38_ScriptsWrittenForUnwrittenPolicy ==
    (op \in PolicyImportOps /\ options.deps) =>
        \A j \in FailedPolicyPuts :
            LET scriptUuids == findScriptUuids(log[j].data.condition)
            IN /\ (j < Len(log) /\ scriptUuids # <<>>) =>
                    /\ log[j + 1].call = "updateScript"
                    /\ log[j + 1].owner = log[j].owner
                    /\ log[j + 1].id = scriptUuids[1]
               /\ Done =>
                    /\ ScriptWritesFromTo(log[j].owner, j, Len(log)) = scriptUuids
                    /\ outcome.kind = "throw"
                    /\ \E n \in 1..Len(Leaves(outcome.error)) :
                        Leaves(outcome.error)[n]
                            = [call |-> "putPolicy", id |-> log[j].id, res |-> log[j].res]

\* the put of a policy failed, its script was written, and the remote store
\* holds the script and not the policy
C38_Witness ==
    /\ op \in PolicyImportOps
    /\ options.deps
    /\ Done
    /\ remote.policy = <<>>
    /\ \E j \in FailedPolicyPuts, n \in LogIndices :
        /\ n > j
        /\ log[n].call = "updateScript" /\ log[n].owner = log[j].owner /\ log[n].res = "ok"
        /\ Has(remote.script, log[n].id)
        /\ Get(remote.script, log[n].id) = log[n].data
        /\ log[n].data # NoObject

(***************************************************************************)
(* A script of a client that could not be written.                         *)
(***************************************************************************)
FailedScriptWrites ==
    {j \in LogIndices : log[j].call = "updateScript" /\ log[j].res # "ok"}

\* C39: in a client import with deps, no call is made for a client after a
\* write of one of its scripts failed: not for the script references that
\* remain and not for the client, which the remote store does not get; the
\* clients after it in the bundle of importOAuth2Clients are taken all the
\* same, and the error thrown holds the failed write.
C39_ScriptFailureAbortsClient ==
    (op \in ClientImportOps /\ options.deps) =>
        \A j \in FailedScriptWrites :
            /\ \A n \in LogIndices : n > j => log[n].owner # log[j].owner
            /\ ~Has(remote.application, log[j].owner)
            /\ Done =>
                /\ outcome.kind = "throw"
                /\ \E n \in 1..Len(Leaves(outcome.error)) :
                    Leaves(outcome.error)[n]
                        = [call |-> "updateScript", id |-> log[j].id, res |-> log[j].res]
                /\ op = "importOAuth2Clients" =>
                    \A i \in 1..Len(importData0.application) :
                        \E n \in LogIndices : log[n].owner = importData0.application[i].k

\* the write of s1 for c2 failed: s2, which c2 references as well and the
\* bundle holds, was not written, c2 was not put, and the client after c2
\* was put
C39_Witness ==
    /\ op = "importOAuth2Clients"
    /\ options.deps
    /\ Done
    /\ KeySet(importData0.script) = {"s1", "s2"}
    /\ Len(importData0.application) = 2
    /\ importData0.application[1].k = "c2"
    /\ log[1].call = "updateScript" /\ log[1].id = "s1" /\ log[1].res # "ok"
    /\ \A n \in LogIndices : n > 1 => log[n].owner = importData0.application[2].k
    /\ Keys(remote.application) = <<importData0.application[2].k>>
    /\ outcome.kind = "throw"

(***************************************************************************)
(* The read before a create that fails though the object is there.         *)
(***************************************************************************)
ProbeFailed == Len(log) >= 2 /\ log[2].res # "ok"
HeldAtCall == Has(CallCollection(RemoteAtCall), arg)

C40_WitnessPolicy ==
    /\ op = "createPolicy"
    /\ Done
    /\ HeldAtCall
    /\ log[2].res = "fail"
    /\ log[3].res = "ok"
    /\ Get(remote.policy, arg) # Get(RemoteAtCall.policy, arg)
    /\ outcome.kind = "return"

====
